---- MODULE Spec2Model ----
(***************************************************************************)
(* CoopBuddy: the response engine (server/brain.py), the bridge server     *)
(* (server/ws_server.py), the message envelopes (server/message_schema.py) *)
(* and the orchestrator (server/main.py) as one state machine.             *)
(*                                                                         *)
(* A text (a Python str) is a sequence of one-character strings; a dict is *)
(* a record (a function on its keys), the empty dict the empty function.   *)
(* asyncio runs one coroutine at a time: an action is the code a coroutine *)
(* runs between two suspension points.                                     *)
(***************************************************************************)
EXTENDS Integers, Sequences, FiniteSets, TLC

(* ------------------------------ texts --------------------------------- *)

Upper == {"A","B","C","D","E","F","G","H","I","J","K","L","M",
          "N","O","P","Q","R","S","T","U","V","W","X","Y","Z"}
Digits == {"0","1","2","3","4","5","6","7","8","9"}
\* \w of a str pattern, on the ASCII texts used here
WordChars ==
    {"a","b","c","d","e","f","g","h","i","j","k","l","m",
     "n","o","p","q","r","s","t","u","v","w","x","y","z"} \cup Upper \cup Digits \cup {"_"}
\* what str.strip() and str.split() remove, on the ASCII texts used here
Whitespace == {" ", "\t", "\n", "\r"}

EmptyDict == [key \in {} |-> 0]
\* Python's None, where a text may stand as well
None == <<"None">>

\* the character of a digit d is DigitChar[d + 1]
DigitChar == <<"0","1","2","3","4","5","6","7","8","9">>

\* str(n) of a non-negative int
RECURSIVE IntToText(_)
IntToText(n) ==
    IF n < 10 THEN <<DigitChar[n + 1]>>
    ELSE IntToText(n \div 10) \o <<DigitChar[(n % 10) + 1]>>

\* index of the first c in text at or after j, 0 when there is none
FindChar(text, c, j) ==
    LET hits == { p \in j..Len(text) : text[p] = c }
    IN  IF hits = {} THEN 0 ELSE CHOOSE p \in hits : \A q \in hits : p <= q

RECURSIVE LStrip(_)
LStrip(text) ==
    IF text # <<>> /\ Head(text) \in Whitespace THEN LStrip(Tail(text)) ELSE text

RECURSIVE RStrip(_)
RStrip(text) ==
    IF text # <<>> /\ text[Len(text)] \in Whitespace
    THEN RStrip(SubSeq(text, 1, Len(text) - 1))
    ELSE text

\* str.strip()
Strip(text) == RStrip(LStrip(text))

\* str.split(c): the fields between the occurrences of c ("" gives [""])
RECURSIVE Split(_, _)
Split(text, c) ==
    LET p == FindChar(text, c, 1)
    IN  IF p = 0 THEN <<text>>
        ELSE <<SubSeq(text, 1, p - 1)>> \o Split(SubSeq(text, p + 1, Len(text)), c)

\* sep.join(parts)
RECURSIVE Join(_, _)
Join(parts, sep) ==
    IF parts = <<>> THEN <<>>
    ELSE IF Len(parts) = 1 THEN parts[1]
    ELSE parts[1] \o sep \o Join(Tail(parts), sep)

\* str.split() with no argument: the runs of non-whitespace characters
RECURSIVE SplitWhitespace(_)
SplitWhitespace(text) ==
    LET t == LStrip(text)
    IN  IF t = <<>> THEN <<>>
        ELSE LET blanks == { j \in 1..Len(t) : t[j] \in Whitespace }
                 e == IF blanks = {} THEN Len(t) + 1
                      ELSE CHOOSE j \in blanks : \A q \in blanks : j <= q
             IN  <<SubSeq(t, 1, e - 1)>> \o SplitWhitespace(SubSeq(t, e, Len(t)))

(* ------------------------------ float() ------------------------------- *)

\* str.lower()
ToLower(text) ==
    LET pairs == { <<"A","a">>, <<"B","b">>, <<"C","c">>, <<"D","d">>, <<"E","e">>,
                   <<"F","f">>, <<"G","g">>, <<"H","h">>, <<"I","i">>, <<"J","j">>,
                   <<"K","k">>, <<"L","l">>, <<"M","m">>, <<"N","n">>, <<"O","o">>,
                   <<"P","p">>, <<"Q","q">>, <<"R","r">>, <<"S","s">>, <<"T","t">>,
                   <<"U","u">>, <<"V","v">>, <<"W","w">>, <<"X","x">>, <<"Y","y">>,
                   <<"Z","z">> }
    IN  [i \in 1..Len(text) |->
            IF text[i] \in Upper THEN (CHOOSE pr \in pairs : pr[1] = text[i])[2]
            ELSE text[i]]

\* text[j] is a digit: the index after the digit run digit (["_"] digit)* that starts at j
RECURSIVE DigitsEnd(_, _)
DigitsEnd(text, j) ==
    IF j + 1 <= Len(text) /\ text[j + 1] \in Digits THEN DigitsEnd(text, j + 1)
    ELSE IF j + 2 <= Len(text) /\ text[j + 1] = "_" /\ text[j + 2] \in Digits
         THEN DigitsEnd(text, j + 2)
    ELSE j + 1

\* the digits of a digit run, its underscores left out
RECURSIVE DigitsOnly(_)
DigitsOnly(text) ==
    IF text = <<>> THEN <<>>
    ELSE IF Head(text) = "_" THEN DigitsOnly(Tail(text))
    ELSE <<Head(text)>> \o DigitsOnly(Tail(text))

RECURSIVE DigitsToInt(_)
DigitsToInt(ds) ==
    IF ds = <<>> THEN 0
    ELSE 10 * DigitsToInt(SubSeq(ds, 1, Len(ds) - 1))
         + (CHOOSE d \in 0..9 : DigitChar[d + 1] = ds[Len(ds)])

\* m * 10^e with no trailing zero left in m
RECURSIVE Normalize(_, _)
Normalize(m, e) ==
    IF m = 0 THEN [kind |-> "finite", m |-> 0, e |-> 0]
    ELSE IF m % 10 = 0 THEN Normalize(m \div 10, e + 1)
    ELSE [kind |-> "finite", m |-> m, e |-> e]

ValueError == [kind |-> "ValueError"]

\* the exponent part that starts at index f1, if there is one: whether it is well
\* formed, the index after it and its value
Exponent(u, f1) ==
    IF f1 <= Len(u) /\ u[f1] \in {"e", "E"}
    THEN LET xs == IF f1 + 1 <= Len(u) /\ u[f1 + 1] \in {"+", "-"} THEN f1 + 2 ELSE f1 + 1
         IN  IF xs <= Len(u) /\ u[xs] \in Digits
             THEN [ok |-> TRUE, last |-> DigitsEnd(u, xs),
                   val |-> (IF u[f1 + 1] = "-" THEN 0 - 1 ELSE 1)
                           * DigitsToInt(DigitsOnly(SubSeq(u, xs, DigitsEnd(u, xs) - 1)))]
             ELSE [ok |-> FALSE, last |-> f1, val |-> 0]
    ELSE [ok |-> TRUE, last |-> f1, val |-> 0]

\* integer digits, fraction digits and exponent of a literal that must end the text
DecimalValue(u, neg, ints, frac, x) ==
    IF (ints # <<>> \/ frac # <<>>) /\ x.ok /\ x.last = Len(u) + 1
    THEN Normalize((IF neg THEN 0 - 1 ELSE 1) * DigitsToInt(ints \o frac), x.val - Len(frac))
    ELSE ValueError

\* the literal's integer digits are u[1..i1-1]; a "." may follow them, and then the
\* fraction digits u[f0..f1-1]
Decimal(u, neg, i1) ==
    LET dot == i1 <= Len(u) /\ u[i1] = "."
        f0 == IF dot THEN i1 + 1 ELSE i1
        f1 == IF dot /\ i1 + 1 <= Len(u) /\ u[i1 + 1] \in Digits
              THEN DigitsEnd(u, i1 + 1)
              ELSE f0
    IN  DecimalValue(u, neg, DigitsOnly(SubSeq(u, 1, i1 - 1)),
                     DigitsOnly(SubSeq(u, f0, f1 - 1)), Exponent(u, f1))

\* float() of the text after its sign
FloatUnsigned(u, neg) ==
    IF ToLower(u) \in { <<"i","n","f">>, <<"i","n","f","i","n","i","t","y">> }
    THEN [kind |-> "inf", m |-> IF neg THEN 0 - 1 ELSE 1, e |-> 0]
    ELSE IF ToLower(u) = <<"n","a","n">> THEN [kind |-> "nan", m |-> 0, e |-> 0]
    ELSE Decimal(u, neg, IF Len(u) >= 1 /\ u[1] \in Digits THEN DigitsEnd(u, 1) ELSE 1)

\* float(text): the value m * 10^e of a decimal literal (sign, digits with single
\* underscores between them, fraction, exponent), an infinity, a nan, or ValueError.
\* The value is the one the literal denotes (no rounding to a double).
ParseFloat(text) ==
    IF Strip(text) # <<>> /\ Strip(text)[1] \in {"+", "-"}
    THEN FloatUnsigned(Tail(Strip(text)), Strip(text)[1] = "-")
    ELSE FloatUnsigned(Strip(text), FALSE)

(* ------------------- brain.py: command extraction --------------------- *)

\* the first index at or after j whose character is not a word character
RECURSIVE WordEnd(_, _)
WordEnd(text, j) ==
    IF j <= Len(text) /\ text[j] \in WordChars THEN WordEnd(text, j + 1) ELSE j

\* _ACTION_PATTERN matched at index i: \[ACTION:(\w+)(?::([^\]]*))?\]
\* \w+ takes the whole run of word characters (a shorter name is followed by a
\* word character, which is neither ":" nor "]"); the parameter runs to the first "]".
\* param is group(2) or "".
MatchAt(text, i) ==
    LET ACTION_PREFIX == <<"[","A","C","T","I","O","N",":">>
        NoMatch == [ok |-> FALSE, last |-> 0, name |-> <<>>, param |-> <<>>]
        j == i + Len(ACTION_PREFIX)
        e == WordEnd(text, j)
    IN  IF j - 1 > Len(text) \/ SubSeq(text, i, j - 1) # ACTION_PREFIX THEN NoMatch
        ELSE IF e = j \/ e > Len(text) THEN NoMatch
        ELSE IF text[e] = "]"
             THEN [ok |-> TRUE, last |-> e, name |-> SubSeq(text, j, e - 1), param |-> <<>>]
        ELSE IF text[e] = ":"
             THEN LET p == FindChar(text, "]", e + 1)
                  IN  IF p = 0 THEN NoMatch
                      ELSE [ok |-> TRUE, last |-> p, name |-> SubSeq(text, j, e - 1),
                            param |-> SubSeq(text, e + 1, p - 1)]
        ELSE NoMatch

\* _ACTION_PATTERN.finditer(text): the matches from index i on, left to right
\* the index of the first match that starts at or after i, 0 when there is none
FirstMatch(text, i) ==
    LET starts == { p \in i..Len(text) : MatchAt(text, p).ok }
    IN  IF starts = {} THEN 0 ELSE CHOOSE p \in starts : \A q \in starts : p <= q

RECURSIVE FindIter(_, _)
FindIter(text, i) ==
    LET p == FirstMatch(text, i)
    IN  IF p = 0 THEN <<>>
        ELSE <<MatchAt(text, p)>> \o FindIter(text, MatchAt(text, p).last + 1)

\* _ACTION_PATTERN.sub("", text)
RECURSIVE SubEmpty(_, _)
SubEmpty(text, i) ==
    LET p == FirstMatch(text, i)
    IN  IF p = 0 THEN SubSeq(text, i, Len(text))
        ELSE SubSeq(text, i, p - 1) \o SubEmpty(text, MatchAt(text, p).last + 1)

\* the names the if/elif chain compares action_type with
ACTION_TYPE ==
    [send_chat |-> <<"s","e","n","d","_","c","h","a","t">>,
     follow_player |-> <<"f","o","l","l","o","w","_","p","l","a","y","e","r">>,
     stop_follow |-> <<"s","t","o","p","_","f","o","l","l","o","w">>,
     look_at |-> <<"l","o","o","k","_","a","t">>,
     eat |-> <<"e","a","t">>,
     attack_mob |-> <<"a","t","t","a","c","k","_","m","o","b">>,
     flee |-> <<"f","l","e","e">>,
     stop_attack |-> <<"s","t","o","p","_","a","t","t","a","c","k">>]

\* float() raises on a field of a look_at tag with three fields
LookAtRaises(m) ==
    LET parts == Split(m.param, ",")
    IN  /\ m.name = ACTION_TYPE.look_at
        /\ Len(parts) = 3
        /\ \E i \in 1..3 : ParseFloat(parts[i]) = ValueError

\* the actions one match appends (the if/elif chain of the loop body)
MatchActions(m) ==
    IF m.name = ACTION_TYPE.send_chat
    THEN <<[action |-> "send_chat", params |-> [message |-> m.param]]>>
    ELSE IF m.name = ACTION_TYPE.follow_player
    THEN <<[action |-> "follow_player", params |-> [name |-> m.param]]>>
    ELSE IF m.name = ACTION_TYPE.stop_follow
    THEN <<[action |-> "stop_follow", params |-> EmptyDict]>>
    ELSE IF m.name = ACTION_TYPE.look_at
    THEN LET parts == Split(m.param, ",")
         IN  IF Len(parts) = 3
             THEN <<[action |-> "look_at",
                     params |-> [x |-> ParseFloat(parts[1]), y |-> ParseFloat(parts[2]),
                                 z |-> ParseFloat(parts[3])]]>>
             ELSE <<>>
    ELSE IF m.name = ACTION_TYPE.eat
    THEN <<[action |-> "eat", params |-> EmptyDict]>>
    ELSE IF m.name = ACTION_TYPE.attack_mob
    THEN <<[action |-> "attack_mob",
            params |-> [name |-> IF m.param # <<>> THEN m.param ELSE None]]>>
    ELSE IF m.name = ACTION_TYPE.flee
    THEN <<[action |-> "flee", params |-> EmptyDict]>>
    ELSE IF m.name = ACTION_TYPE.stop_attack
    THEN <<[action |-> "stop_attack", params |-> EmptyDict]>>
    ELSE <<>>

RECURSIVE AllActions(_)
AllActions(ms) ==
    IF ms = <<>> THEN <<>> ELSE MatchActions(Head(ms)) \o AllActions(Tail(ms))

\* _extract_actions(text): (clean, actions), or the ValueError float() raises
extract_actions(text) ==
    LET ms == FindIter(text, 1)
    IN  IF \E i \in 1..Len(ms) : LookAtRaises(ms[i])
        THEN [raised |-> TRUE, clean |-> <<>>, actions |-> <<>>]
        ELSE [raised |-> FALSE, clean |-> Strip(SubEmpty(text, 1)),
              actions |-> AllActions(ms)]

(* ------------------- brain.py: event prompts -------------------------- *)

\* event types, as the texts the code compares event_type with
EVENT_TYPE ==
    [mob_spawn |-> <<"m","o","b","_","s","p","a","w","n">>,
     player_death |-> <<"p","l","a","y","e","r","_","d","e","a","t","h">>,
     health_low |-> <<"h","e","a","l","t","h","_","l","o","w">>,
     weather_change |-> <<"w","e","a","t","h","e","r","_","c","h","a","n","g","e">>,
     player_join |-> <<"p","l","a","y","e","r","_","j","o","i","n">>,
     health_critical |-> <<"h","e","a","l","t","h","_","c","r","i","t","i","c","a","l">>,
     night_fall |-> <<"n","i","g","h","t","_","f","a","l","l">>,
     dawn |-> <<"d","a","w","n">>,
     biome_change |-> <<"b","i","o","m","e","_","c","h","a","n","g","e">>,
     item_pickup |-> <<"i","t","e","m","_","p","i","c","k","u","p">>,
     creeper_nearby |-> <<"c","r","e","e","p","e","r","_","n","e","a","r","b","y">>,
     under_attack |-> <<"u","n","d","e","r","_","a","t","t","a","c","k">>,
     mob_killed |-> <<"m","o","b","_","k","i","l","l","e","d">>,
     game_state |-> <<"g","a","m","e","_","s","t","a","t","e">>,
     bot_joined |-> <<"b","o","t","_","j","o","i","n","e","d">>,
     bot_disconnected |-> <<"b","o","t","_","d","i","s","c","o","n","n","e","c","t","e","d">>,
     player_message |-> <<"p","l","a","y","e","r","_","m","e","s","s","a","g","e">>]

\* dict.get(key, default)
Get(d, key, default) == IF key \in DOMAIN d THEN d[key] ELSE default

\* a value as an f-string renders it: the keys distance, health, playerHealth and
\* playerFood hold ints (or the text default), every other key holds a text
IntKeys == {"distance", "health", "playerHealth", "playerFood"}
Fmt(d, key, default) ==
    IF key \in DOMAIN d
    THEN IF key \in IntKeys THEN IntToText(d[key]) ELSE d[key]
    ELSE default

\* json.dumps(data) of a dict with at most one key (a text or an int value)
JsonDumps(d) ==
    IF DOMAIN d = {} THEN <<"{","}">>
    ELSE LET key == CHOOSE k \in DOMAIN d : TRUE
             keyText == CASE key = "name" -> <<"n","a","m","e">>
                          [] key = "distance" -> <<"d","i","s","t","a","n","c","e">>
                          [] key = "cause" -> <<"c","a","u","s","e">>
                          [] key = "health" -> <<"h","e","a","l","t","h">>
                          [] key = "weather" -> <<"w","e","a","t","h","e","r">>
             val == IF key \in IntKeys THEN IntToText(d[key])
                    ELSE <<"\"">> \o d[key] \o <<"\"">>
         IN  <<"{","\"">> \o keyText \o <<"\"",":"," ">> \o val \o <<"}">>

\* _build_event_prompt(event_type, data); "u2014" stands for the character U+2014
\* (a module is ASCII)
build_event_prompt(event_type, data) ==
    IF event_type = EVENT_TYPE.mob_spawn
    THEN <<"[","E","V","E","N","T","]"," ","A"," ">> \o
         Fmt(data, "name", <<"s","o","m","e","t","h","i","n","g">>) \o
         <<" ","j","u","s","t"," ","s","p","a","w","n","e","d"," ">> \o
         Fmt(data, "distance", <<"?">>) \o
         <<" ","b","l","o","c","k","s"," ","a","w","a","y"," ","f","r","o","m"," ","u","s",".">>
    ELSE IF event_type = EVENT_TYPE.player_death
    THEN <<"[","E","V","E","N","T","]"," ","I"," ","j","u","s","t"," ","d","i","e","d","."," ","D","e","a","t","h"," ","m","e","s","s","a","g","e",":"," ">> \o
         Fmt(data, "cause", <<"s","o","m","e","t","h","i","n","g">>)
    ELSE IF event_type = EVENT_TYPE.health_low
    THEN <<"[","E","V","E","N","T","]"," ","M","y"," ","h","e","a","l","t","h"," ","j","u","s","t"," ","d","r","o","p","p","e","d"," ","t","o"," ">> \o
         Fmt(data, "health", <<"?">>) \o
         <<" ","h","e","a","r","t","s",".">>
    ELSE IF event_type = EVENT_TYPE.weather_change
    THEN <<"[","E","V","E","N","T","]"," ","W","e","a","t","h","e","r"," ","c","h","a","n","g","e","d"," ","u2014"," ","i","t","'","s"," ","n","o","w"," ">> \o
         Fmt(data, "weather", <<"u","n","k","n","o","w","n">>) \o
         <<".">>
    ELSE IF event_type = EVENT_TYPE.player_join
    THEN <<"[","E","V","E","N","T","]"," ">> \o
         Fmt(data, "name", <<"s","o","m","e","o","n","e">>) \o
         <<" ","j","u","s","t"," ","j","o","i","n","e","d"," ","t","h","e"," ","s","e","r","v","e","r",".">>
    ELSE IF event_type = EVENT_TYPE.health_critical
    THEN <<"[","E","V","E","N","T","]"," ","M","y"," ","h","e","a","l","t","h"," ","i","s"," ","a","t"," ">> \o
         Fmt(data, "health", <<"?">>) \o
         <<" ","u2014"," ","t","h","a","t","'","s"," ","c","r","i","t","i","c","a","l",","," ","w","e"," ","n","e","e","d"," ","t","o"," ","a","c","t"," ","f","a","s","t",".">>
    ELSE IF event_type = EVENT_TYPE.night_fall
    THEN <<"[","E","V","E","N","T","]"," ","I","t"," ","j","u","s","t"," ","t","u","r","n","e","d"," ","n","i","g","h","t","."," ","M","o","b","s"," ","a","r","e"," ","g","o","i","n","g"," ","t","o"," ","s","t","a","r","t"," ","s","p","a","w","n","i","n","g",".">>
    ELSE IF event_type = EVENT_TYPE.dawn
    THEN <<"[","E","V","E","N","T","]"," ","S","u","n","'","s"," ","c","o","m","i","n","g"," ","u","p","."," ","W","e"," ","m","a","d","e"," ","i","t"," ","t","h","r","o","u","g","h"," ","t","h","e"," ","n","i","g","h","t",".">>
    ELSE IF event_type = EVENT_TYPE.biome_change
    THEN <<"[","E","V","E","N","T","]"," ","W","e"," ","j","u","s","t"," ","c","r","o","s","s","e","d"," ","i","n","t","o"," ","a"," ">> \o
         Fmt(data, "to", <<"s","o","m","e","w","h","e","r","e">>) \o
         <<" ","b","i","o","m","e"," ","(","w","a","s"," ">> \o
         Fmt(data, "from", <<"s","o","m","e","w","h","e","r","e">>) \o
         <<")",".">>
    ELSE IF event_type = EVENT_TYPE.item_pickup
    THEN <<"[","E","V","E","N","T","]"," ">> \o
         (IF Get(data, "collector", <<>>) = <<"b","o","t">> THEN <<"I">> ELSE <<"Y","o","u">>) \o
         <<" ","j","u","s","t"," ","p","i","c","k","e","d"," ","u","p"," ">> \o
         Fmt(data, "item", <<"s","o","m","e","t","h","i","n","g">>) \o
         <<".">>
    ELSE IF event_type = EVENT_TYPE.creeper_nearby
    THEN <<"[","E","V","E","N","T","]"," ","T","h","e","r","e","'","s"," ","a"," ","c","r","e","e","p","e","r"," ","o","n","l","y"," ">> \o
         Fmt(data, "distance", <<"?">>) \o
         <<" ","b","l","o","c","k","s"," ","a","w","a","y"," ","f","r","o","m"," ","u","s",".">>
    ELSE IF event_type = EVENT_TYPE.under_attack
    THEN <<"[","E","V","E","N","T","]"," ","I","'","m"," ","b","e","i","n","g"," ","a","t","t","a","c","k","e","d"," ","b","y"," ","a"," ">> \o
         Fmt(data, "attacker", <<"s","o","m","e","t","h","i","n","g">>) \o
         <<"!"," ","H","P",":"," ">> \o
         Fmt(data, "health", <<"?">>) \o
         <<"."," ","I"," ","a","u","t","o","-">> \o
         Fmt(data, "action_taken", <<"n","o","t","h","i","n","g">>) \o
         <<"e","d",".">>
    ELSE IF event_type = EVENT_TYPE.mob_killed
    THEN <<"[","E","V","E","N","T","]"," ","J","u","s","t"," ","t","o","o","k"," ","o","u","t"," ","a"," ">> \o
         Fmt(data, "mob", <<"s","o","m","e","t","h","i","n","g">>) \o
         <<"."," ","N","i","c","e",".">>
    ELSE <<"[","E","V","E","N","T","]"," ">> \o event_type \o <<":"," ">> \o JsonDumps(data)

(* ------------------- brain.py: conversation history ------------------- *)

\* settings.json: brain.history_length
HISTORY_LENGTH == 1

\* game_state payloads
StateUpdates == { [playerHealth |-> 20] }

\* _format_game_state(gs).  The snapshots drawn hold no nearbyHostile, inventory or
\* potionEffects list: gs.get(..., []) is empty for them and they add no part.
format_game_state(gs) ==
    LET parts ==
            (IF "playerHealth" \in DOMAIN gs
             THEN <<<<"H","P",":">> \o IntToText(gs["playerHealth"]) \o <<"/","2","0">>>> ELSE <<>>) \o
            (IF "playerFood" \in DOMAIN gs
             THEN <<<<"F","o","o","d",":">> \o IntToText(gs["playerFood"]) \o <<"/","2","0">>>> ELSE <<>>) \o
            (IF "biome" \in DOMAIN gs
             THEN <<<<"B","i","o","m","e",":">> \o gs["biome"]>> ELSE <<>>) \o
            (IF "timeOfDay" \in DOMAIN gs
             THEN <<<<"T","i","m","e",":">> \o gs["timeOfDay"]>> ELSE <<>>) \o
            (IF "dimension" \in DOMAIN gs
             THEN <<<<"D","i","m",":">> \o gs["dimension"]>> ELSE <<>>) \o
            (IF Get(gs, "isRaining", FALSE)
             THEN <<<<"R","a","i","n","i","n","g">>>> ELSE <<>>)
    IN  IF parts = <<>> THEN <<>>
        ELSE <<"[","G","A","M","E"," ","S","T","A","T","E","]"," ">> \o Join(parts, <<" ","|"," ">>)

\* a _trim that pops the newest turn
RECURSIVE trim_newest(_)
trim_newest(ts) ==
    IF Len(ts) > HISTORY_LENGTH * 2 THEN trim_newest(SubSeq(ts, 1, Len(ts) - 1)) ELSE ts

\* ConversationHistory._trim
RECURSIVE trim(_)
trim(ts) == IF Len(ts) > HISTORY_LENGTH * 2 THEN trim(Tail(ts)) ELSE ts

\* _format_game_state on the snapshots the payloads give, evaluated once
Formatted == [gs \in StateUpdates |-> format_game_state(gs)]

\* _format_game_state(gs), read from the table where it holds the snapshot
formatted(gs) == IF gs \in DOMAIN Formatted THEN Formatted[gs] ELSE format_game_state(gs)

\* the turn add_user appends: the rendered snapshot, if the dict is not empty, a
\* blank line and the text
user_turn(text, gs) ==
    [role |-> "user",
     content |-> (IF DOMAIN gs # {} THEN formatted(gs) \o <<"\n","\n">> ELSE <<>>)
                 \o text]

\* the turn add_assistant appends
assistant_turn(text) == [role |-> "assistant", content |-> text]

\* ConversationHistory.add_user
add_user(ts, text, gs) == trim(Append(ts, user_turn(text, gs)))

\* ConversationHistory.add_assistant
add_assistant(ts, text) == trim(Append(ts, assistant_turn(text)))

(* ------------------------- bounds and inputs -------------------------- *)

\* time.time() at start-up, the seconds one clock step adds, and the clock steps taken
StartTime == 100
TimeStep == 15
MaxTicks == 2
\* coroutines that call the engine concurrently
MaxCalls == 2

\* settings.json: brain.max_queue_depth
MAX_QUEUE_DEPTH == 1
\* settings.json: brain.cooldowns lists mob_spawn with this many seconds
ListedCooldown == 15
COOLDOWNS == [et \in {EVENT_TYPE.mob_spawn} |-> ListedCooldown]
\* COOLDOWNS.get(event_type, 30)
DefaultCooldown == 30

Calls == 1..MaxCalls

\* what the completion function is asked and what it answers
ThinkInputs == { <<"h","i">> }
R_flee == <<"[","A","C","T","I","O","N",":","f","l","e","e","]"," ","r","u","n","n","i","n","g","!">>
Replies ==
    { R_flee,
      <<"[","A","C","T","I","O","N",":","l","o","o","k","_","a","t",":","a",",","b",",","c","]"," ","o","v","e","r"," ","t","h","e","r","e">> }
\* message[:250]
CHAT_LIMIT == 250

\* a text of more than 250 characters, and a reply that carries it twice: as the
\* parameter of a send_chat tag and as the text left when the tag is removed
LongText ==
    [i \in 1..(CHAT_LIMIT + 2) |->
        IF i = 1 THEN "a" ELSE IF i <= CHAT_LIMIT THEN "y" ELSE "z"]
R_long ==
    <<"[","A","C","T","I","O","N",":","s","e","n","d","_","c","h","a","t",":">>
    \o LongText \o <<"]"," ">> \o LongText
FALLBACK == <<".",".",".","b","r","u","h"," ","m","y"," ","b","r","a","i","n"," ","j","u","s","t"," ","l","a","g","g","e","d",","," ","w","h","a","t"," ","w","e","r","e"," ","y","o","u"," ","s","a","y","i","n","g","?">>

\* proactive events: mob_spawn is listed in COOLDOWNS, night_fall is not
ProactiveEvents ==
    { [event_type |-> EVENT_TYPE.mob_spawn, data |-> [name |-> <<"z","o","m","b","i","e">>, distance |-> 5]],
      [event_type |-> EVENT_TYPE.night_fall, data |-> EmptyDict] }

(* ------------------------------ state --------------------------------- *)

VARIABLES
    now,               \* time.time()
    voice_active,      \* Brain._voice_active
    last_event_time,   \* Brain._last_event_time
    proactive_lock,    \* Brain._proactive_lock.locked()
    proactive_queue,   \* Brain._proactive_queue
    turns,             \* Brain._history._turns
    game_state,        \* Brain._game_state (the dict main.game_state)
    pc,                \* where each coroutine is suspended
    loc,               \* its call and local variables
    returned,          \* the call that returned last, and what it returned
    connection,        \* WSServer._connection (0 is None)
    send_lock,         \* WSServer._send_lock: locked, and the coroutines waiting for it
    conns,             \* each websocket: its state, its read loop, its heartbeat task
    outbox,            \* each websocket: the envelopes written to it, in order
    sends,             \* each coroutine inside WSServer._send: where it is, its envelope
    tasks,             \* each _run_game_event task: where it is, its envelope, its locals
    appended           \* every turn appended to a history so far (a record of the run)

brainVars == <<voice_active, last_event_time, proactive_lock, proactive_queue, turns, game_state>>
taskVars == <<pc, loc, returned>>
bridgeVars == <<connection, send_lock, conns, outbox, sends, tasks>>
vars == <<now, brainVars, taskVars, bridgeVars, appended>>

NoRet == [kind |-> "-", text |-> <<>>, actions |-> <<>>]
RetNone == [kind |-> "None", text |-> <<>>, actions |-> <<>>]
RetPair(text, actions) == [kind |-> "pair", text |-> text, actions |-> actions]

NoCall == [op |-> "-", event_type |-> <<>>]
\* a return: the coroutine, its call, the branch a handle_game_event call took, the
\* value, and the time
Return(k, call, outcome, value) ==
    [task |-> k, op |-> call.op, event_type |-> call.event_type, outcome |-> outcome,
     ret |-> value, at |-> now]

(* --------------------------- brain.py: Brain -------------------------- *)

\* Brain.update_game_state: self._game_state.update(game_state)
update_game_state(data) ==
    /\ game_state' = [key \in DOMAIN game_state \cup DOMAIN data |->
                          IF key \in DOMAIN data THEN data[key] ELSE game_state[key]]
    /\ UNCHANGED <<voice_active, last_event_time, proactive_lock, proactive_queue, turns>>

\* what the executor's messages.create call does: it returns a text or raises
Answers ==
    { [failed |-> FALSE, text |-> r] : r \in Replies } \cup { [failed |-> TRUE, text |-> <<>>] }

\* a _call_claude whose except branch returns an empty text
call_claude_empty(answer) ==
    IF answer.failed THEN <<>> ELSE answer.text

\* Brain._call_claude: the reply text, or the fixed utterance of the except branch
call_claude(answer) ==
    IF answer.failed THEN FALLBACK ELSE answer.text

\* Brain.think up to its await: the user turn
think_begin(user_input) ==
    /\ turns' = add_user(turns, user_input, game_state)
    /\ UNCHANGED <<voice_active, last_event_time, proactive_lock, proactive_queue, game_state>>

\* _extract_actions on the responses _call_claude can return, evaluated once
Responses == Replies \cup {R_long, FALLBACK}
Extracted == [response \in Responses |-> extract_actions(response)]

\* _extract_actions(response), read from the table where it holds the response
extracted(response) ==
    IF response \in DOMAIN Extracted THEN Extracted[response] ELSE extract_actions(response)

\* what think and handle_game_event return for a response (a ValueError of
\* _extract_actions propagates)
extract_result(response) ==
    IF extracted(response).raised THEN [kind |-> "raised", text |-> <<>>, actions |-> <<>>]
    ELSE RetPair(extracted(response).clean, extracted(response).actions)

\* the turns after "text, actions = _extract_actions(response);
\* self._history.add_assistant(response)": the raw response is appended, unless
\* the extraction raised
turns_after_response(response) ==
    IF extracted(response).raised THEN turns ELSE add_assistant(turns, response)

\* Brain.think from its await on
think_end(response) ==
    /\ turns' = turns_after_response(response)
    /\ UNCHANGED <<voice_active, last_event_time, proactive_lock, proactive_queue, game_state>>

\* COOLDOWNS.get(event_type, 30)
Cooldown(event_type) == Get(COOLDOWNS, event_type, DefaultCooldown)

\* _build_event_prompt on the proactive events drawn, evaluated once
Prompts == [ev \in ProactiveEvents |-> build_event_prompt(ev.event_type, ev.data)]

\* _build_event_prompt(event_type, data), read from the table where it holds the event
event_prompt(event_type, data) ==
    IF [event_type |-> event_type, data |-> data] \in DOMAIN Prompts
    THEN Prompts[[event_type |-> event_type, data |-> data]]
    ELSE build_event_prompt(event_type, data)

\* " ".join(text.split()) on the texts _extract_actions returns, evaluated once
Collapsed ==
    [text \in { Extracted[response].clean : response \in Responses } |->
        Join(SplitWhitespace(text), <<" ">>)]

\* " ".join(text.split()), read from the table where it holds the text
collapsed(text) ==
    IF text \in DOMAIN Collapsed THEN Collapsed[text] ELSE Join(SplitWhitespace(text), <<" ">>)

\* a voice check that is never taken
VoiceNeverSuppressed == FALSE

\* "if self._voice_active"
VoiceSuppressed == voice_active

\* a cooldown check that reads no stamp
CooldownWithoutStamp(event_type) == now - 0 < Cooldown(event_type)

\* "if now - last < cooldown", last being self._last_event_time.get(event_type, 0)
CooldownSuppressed(event_type) ==
    now - Get(last_event_time, event_type, 0) < Cooldown(event_type)

\* a lock check that is never taken
LockNeverHeld == FALSE

\* "if self._proactive_lock.locked()"
LockHeld == proactive_lock

\* a queue that is never full
QueueNeverFull == FALSE

\* asyncio.Queue.full(): a maxsize <= 0 is no limit
QueueFull ==
    IF MAX_QUEUE_DEPTH <= 0 THEN FALSE ELSE Len(proactive_queue) >= MAX_QUEUE_DEPTH

\* the branch a handle_game_event call takes
Outcome(event_type) ==
    IF VoiceSuppressed THEN "voice"
    ELSE IF CooldownSuppressed(event_type) THEN "cooldown"
    ELSE IF LockHeld THEN (IF QueueFull THEN "dropped" ELSE "queued")
    ELSE "admitted"

\* a handle_game_event that stamps the type when the event is received, admitted or
\* not
handle_game_event_begin_stamping(event_type, data) ==
    LET o == Outcome(event_type)
    IN  /\ proactive_queue' = IF o = "queued"
                              THEN Append(proactive_queue, <<event_type, data>>)
                              ELSE proactive_queue
        /\ proactive_lock' = IF o = "admitted" THEN TRUE ELSE proactive_lock
        /\ last_event_time' =
              [key \in DOMAIN last_event_time \cup {event_type} |->
                  IF key = event_type THEN now ELSE last_event_time[key]]
        /\ turns' = IF o = "admitted"
                    THEN add_user(turns, event_prompt(event_type, data), game_state)
                    ELSE turns
        /\ UNCHANGED <<voice_active, game_state>>

\* Brain.handle_game_event up to its return None or its await.  Acquiring the
\* free lock does not suspend: check, acquisition, stamp and user turn are one step.
handle_game_event_begin(event_type, data) ==
    LET o == Outcome(event_type)
    IN  /\ proactive_queue' = IF o = "queued"
                              THEN Append(proactive_queue, <<event_type, data>>)
                              ELSE proactive_queue
        /\ proactive_lock' = IF o = "admitted" THEN TRUE ELSE proactive_lock
        /\ last_event_time' =
              IF o = "admitted"
              THEN [key \in DOMAIN last_event_time \cup {event_type} |->
                       IF key = event_type THEN now ELSE last_event_time[key]]
              ELSE last_event_time
        /\ turns' = IF o = "admitted"
                    THEN add_user(turns, event_prompt(event_type, data), game_state)
                    ELSE turns
        /\ UNCHANGED <<voice_active, game_state>>

\* a handle_game_event that takes the oldest queued event out when it releases the
\* lock
handle_game_event_end_draining(response) ==
    /\ turns' = turns_after_response(response)
    /\ proactive_lock' = FALSE
    /\ proactive_queue' = IF proactive_queue = <<>> THEN <<>> ELSE Tail(proactive_queue)
    /\ UNCHANGED <<voice_active, last_event_time, game_state>>

\* a handle_game_event that releases the lock by hand after add_assistant, so that
\* the lock stays held when the extraction raises
handle_game_event_end_holding(response) ==
    /\ turns' = turns_after_response(response)
    /\ proactive_lock' = extracted(response).raised
    /\ UNCHANGED <<voice_active, last_event_time, proactive_queue, game_state>>

\* Brain.handle_game_event from its await on; leaving "async with" releases the
\* lock, on return and on an exception
handle_game_event_end(response) ==
    /\ turns' = turns_after_response(response)
    /\ proactive_lock' = FALSE
    /\ UNCHANGED <<voice_active, last_event_time, proactive_queue, game_state>>

(* ---------------------- message_schema.py, ws_server.py ---------------- *)

MaxConns == 2
MaxCallers == 2
MaxOutbox == 2

Take(text, n) == SubSeq(text, 1, IF Len(text) < n THEN Len(text) ELSE n)

Conns == 1..MaxConns
Callers == 1..MaxCallers

\* the coroutines that call WSServer._send: the read loop of a websocket (the pong
\* of _dispatch), a caller of send_action or send_chat from outside the
\* orchestrator, a _run_game_event task, and the chat task a task creates
Senders ==
    ({"reader"} \X Conns) \cup ({"caller"} \X Callers) \cup ({"task", "chat"} \X Calls)

NoSend == [st |-> "idle", msg |-> EmptyDict, target |-> 0]

\* a _run_game_event task: st is where it is suspended, msg its envelope, rest the
\* actions handle_response has still to forward, tts and chat the two tasks
\* handle_response creates; arrival, outcome, handled and log record the run
NoTask ==
    [st |-> "free", msg |-> EmptyDict, rest |-> <<>>, tts |-> "-", chat |-> "-",
     clean |-> <<>>, arrival |-> EmptyDict, outcome |-> "-", handled |-> NoRet,
     log |-> <<>>]

\* the server's state as one value, for the operators below
Bridge ==
    [connection |-> connection, send_lock |-> send_lock, conns |-> conns,
     outbox |-> outbox, sends |-> sends]

SetBridge(b) ==
    /\ connection' = b.connection
    /\ send_lock' = b.send_lock
    /\ conns' = b.conns
    /\ outbox' = b.outbox
    /\ sends' = b.sends

\* make_pong
make_pong(ping_timestamp) ==
    [type |-> "pong", ping_timestamp |-> ping_timestamp, timestamp |-> now]

VALID_TYPES == {"game_event", "action", "ping", "pong"}

\* validate_message on what json.loads returned
validate_message(payload) ==
    /\ payload.json = "dict"
    /\ "type" \in DOMAIN payload.msg
    /\ payload.msg.type \in VALID_TYPES

\* the slot refers to a websocket that is open
Live(b) == b.connection # 0 /\ b.conns[b.connection].open

\* envelopes written and being written (bounds the run)
Volume(b) ==
    LET RECURSIVE Written(_)
        Written(c) == IF c = 0 THEN 0 ELSE Len(b.outbox[c]) + Written(c - 1)
    IN  Written(Len(b.outbox))
    + Cardinality({s \in Senders : b.sends[s].st # "idle"})
    + Cardinality({c \in 1..Len(b.conns) : b.conns[c].heartbeat = "writing"})

\* a call of _send that is suspended, and one that returned or raised: res is
\* "true", "false" or "raised", why the branch it took
Pending(b) == [b |-> b, done |-> FALSE, res |-> "-", why |-> "-", target |-> 0]
Done(b, res, why, target) == [b |-> b, done |-> TRUE, res |-> res, why |-> why, target |-> target]

\* the coroutine leaves _send: the async with block releases the lock
\* (asyncio.Lock.release: the lock passes to the first waiter, which resumes later)
leave(b, s) ==
    IF b.send_lock.waiters = <<>>
    THEN [b EXCEPT !.sends[s] = NoSend, !.send_lock.locked = FALSE]
    ELSE [b EXCEPT !.sends[s] = NoSend,
                   !.send_lock.waiters = Tail(@),
                   !.sends[Head(b.send_lock.waiters)].st = "granted"]

\* an except branch of _send that lets the exception through
send_error_propagates == "raised"

\* "except Exception: return False"
send_error == "false"

\* _send with the lock held: "self._connection.send(...)" reads the slot again; on
\* None the attribute lookup raises, on a closed websocket send raises
\* ConnectionClosed and the slot is cleared, otherwise the write begins
write_begin(b, s, msg) ==
    IF b.connection = 0
    THEN Done(leave(b, s), send_error, "attribute_error", 0)
    ELSE IF ~b.conns[b.connection].open
    THEN Done(leave([b EXCEPT !.connection = 0], s), "false", "connection_closed",
              b.connection)
    ELSE Pending([b EXCEPT !.sends[s] =
                     [st |-> "writing", msg |-> msg, target |-> b.connection]])

\* the write ends: the envelope is out, or the websocket closed under it and send
\* raised ConnectionClosed
write_end(b, s) ==
    IF b.conns[b.sends[s].target].open
    THEN Done(leave([b EXCEPT !.outbox[b.sends[s].target] = Append(@, b.sends[s].msg)], s),
              "true", "sent", b.sends[s].target)
    ELSE Done(leave([b EXCEPT !.connection = 0], s), "false", "connection_closed",
              b.sends[s].target)

\* WSServer._send up to its first suspension
send(b, s, msg) ==
    IF b.connection = 0
    THEN Done(b, "false", "no_connection", 0)
    ELSE IF b.send_lock.locked
    THEN Pending([b EXCEPT !.send_lock.waiters = Append(@, s),
                           !.sends[s] = [st |-> "waiting", msg |-> msg, target |-> 0]])
    ELSE write_begin([b EXCEPT !.send_lock.locked = TRUE], s, msg)

\* the next step of a coroutine suspended in _send
send_step(b, s) ==
    IF b.sends[s].st = "granted" THEN write_begin(b, s, b.sends[s].msg) ELSE write_end(b, s)

\* WSServer.send_action
send_action(b, s, action, params) ==
    IF b.connection = 0
    THEN Done(b, "false", "no_connection", 0)
    ELSE send(b, s, [type |-> "action", action |-> action, params |-> params])

\* a send_chat that sends the whole message
send_chat_untruncated(b, s, message) ==
    send_action(b, s, "send_chat", [message |-> message])

\* a send_chat whose envelope names the action "chat"
send_chat_as_chat(b, s, message) ==
    send_action(b, s, "chat", [message |-> Take(message, CHAT_LIMIT)])

\* WSServer.send_chat
send_chat(b, s, message) ==
    send_action(b, s, "send_chat", [message |-> Take(message, CHAT_LIMIT)])

\* a finally block that cancels the heartbeat task and leaves the slot as it is
reader_exit_keeps_slot(b, c) ==
    [b EXCEPT !.conns[c].reader = "ended",
              !.conns[c].heartbeat = IF @ = "ended" THEN @ ELSE "cancelled"]

\* the finally block of _handle_connection: the heartbeat task is cancelled and the
\* slot is cleared
reader_exit(b, c) ==
    [b EXCEPT !.connection = 0,
              !.conns[c].reader = "ended",
              !.conns[c].heartbeat = IF @ = "ended" THEN @ ELSE "cancelled"]

(* ------------- the engine called by concurrent coroutines ------------- *)

\* the clock advances
Tick ==
    /\ now < StartTime + MaxTicks * TimeStep
    /\ now' = now + TimeStep
    /\ UNCHANGED <<brainVars, taskVars, bridgeVars, appended>>

\* main.on_ptt_start / main.on_ptt_stop, from the keyboard thread:
\* Brain.set_voice_active(active)
SetVoiceActive(active) ==
    /\ voice_active' = active
    /\ UNCHANGED <<last_event_time, proactive_lock, proactive_queue, turns, game_state>>
    /\ UNCHANGED <<now, taskVars, bridgeVars, appended>>

\* a game_state payload is merged into the snapshot
UpdateGameState(data) ==
    /\ update_game_state(data)
    /\ UNCHANGED <<now, taskVars, bridgeVars, appended>>

\* a coroutine calls brain.think(user_input) and suspends in _call_claude
CallThink(k, user_input) ==
    /\ pc[k] = "idle"
    /\ think_begin(user_input)
    /\ pc' = [pc EXCEPT ![k] = "think_await"]
    /\ loc' = [loc EXCEPT ![k] = [op |-> "think", event_type |-> <<>>]]
    /\ UNCHANGED <<now, returned, bridgeVars, appended>>

\* the completion of a think call returns or fails; think runs to its end
ThinkResume(k, answer) ==
    /\ pc[k] = "think_await"
    /\ think_end(call_claude(answer))
    /\ pc' = [pc EXCEPT ![k] = "idle"]
    /\ loc' = [loc EXCEPT ![k] = NoCall]
    /\ returned' = Return(k, loc[k], "-", extract_result(call_claude(answer)))
    /\ UNCHANGED <<now, bridgeVars, appended>>

\* a coroutine calls brain.handle_game_event(event_type, data): it returns None, or
\* is admitted and suspends in _call_claude
CallHandleGameEvent(k, ev) ==
    /\ pc[k] = "idle"
    /\ handle_game_event_begin(ev.event_type, ev.data)
    /\ LET call == [op |-> "handle_game_event", event_type |-> ev.event_type]
           o == Outcome(ev.event_type)
       IN  IF o = "admitted"
           THEN /\ pc' = [pc EXCEPT ![k] = "event_await"]
                /\ loc' = [loc EXCEPT ![k] = call]
                /\ UNCHANGED returned
           ELSE /\ returned' = Return(k, call, o, RetNone)
                /\ UNCHANGED <<pc, loc>>
    /\ UNCHANGED <<now, bridgeVars, appended>>

\* the completion of an admitted handle_game_event call returns or fails
EventResume(k, answer) ==
    /\ pc[k] = "event_await"
    /\ handle_game_event_end(call_claude(answer))
    /\ pc' = [pc EXCEPT ![k] = "idle"]
    /\ loc' = [loc EXCEPT ![k] = NoCall]
    /\ returned' = Return(k, loc[k], "admitted", extract_result(call_claude(answer)))
    /\ UNCHANGED <<now, bridgeVars, appended>>

\* main.py at start-up: Brain(game_state) on the empty dict, the WSServer with no
\* connection, no coroutine inside a call
InitBrain ==
    /\ now = StartTime
    /\ voice_active = FALSE
    /\ last_event_time = EmptyDict
    /\ proactive_lock = FALSE
    /\ proactive_queue = <<>>
    /\ turns = <<>>
    /\ game_state = EmptyDict
    /\ pc = [k \in Calls |-> "idle"]
    /\ loc = [k \in Calls |-> NoCall]
    /\ returned = Return(0, NoCall, "-", NoRet)
    /\ connection = 0
    /\ send_lock = [locked |-> FALSE, waiters |-> <<>>]
    /\ conns = <<>>
    /\ outbox = <<>>
    /\ sends = [s \in Senders |-> NoSend]
    /\ tasks = [k \in Calls |-> NoTask]
    /\ appended = <<>>

NextBrain ==
    \/ \E active \in BOOLEAN : SetVoiceActive(active)
    \/ \E data \in StateUpdates : UpdateGameState(data)
    \/ \E k \in Calls, user_input \in ThinkInputs : CallThink(k, user_input)
    \/ \E k \in Calls, answer \in Answers : ThinkResume(k, answer)
    \/ \E k \in Calls, ev \in ProactiveEvents : CallHandleGameEvent(k, ev)
    \/ \E k \in Calls, answer \in Answers : EventResume(k, answer)

\* think and handle_game_event under every interleaving of their callers and every
\* answer of the completion function, the clock standing still
SpecBrain == InitBrain /\ [][NextBrain]_vars

\* the completion answers with a reply
GateAnswers == { [failed |-> FALSE, text |-> R_flee] }

NextGate ==
    \/ Tick
    \/ \E active \in BOOLEAN : SetVoiceActive(active)
    \/ \E k \in Calls, ev \in ProactiveEvents : CallHandleGameEvent(k, ev)
    \/ \E k \in Calls, answer \in GateAnswers : EventResume(k, answer)

\* the admission of proactive events (voice flag, cooldowns, lock, queue) under every
\* interleaving of concurrent handle_game_event calls with the clock
SpecGate == InitBrain /\ [][NextGate]_vars

\* the admission of proactive events next to think calls, with the clock
SpecTable ==
    InitBrain /\ [][\/ NextGate
                    \/ \E k \in Calls, user_input \in ThinkInputs : CallThink(k, user_input)
                    \/ \E k \in Calls, answer \in GateAnswers : ThinkResume(k, answer)]_vars

(* ----------------- _extract_actions called on its own ----------------- *)

MaxTags == 3

\* what a response is made of: look_at tags with three numeric fields, two fields,
\* three fields that are no numbers and no parameter, a tag without parameter, a
\* tag with an unknown name, and plain text between blanks
Pieces ==
    { <<"[","A","C","T","I","O","N",":","l","o","o","k","_","a","t",":","1",",","2",",","3","]">>,
      <<"[","A","C","T","I","O","N",":","l","o","o","k","_","a","t",":","1",",","2","]">>,
      <<"[","A","C","T","I","O","N",":","l","o","o","k","_","a","t",":","a",",","b",",","c","]">>,
      <<"[","A","C","T","I","O","N",":","l","o","o","k","_","a","t","]">>,
      <<"[","A","C","T","I","O","N",":","f","l","e","e","]">>,
      <<"[","A","C","T","I","O","N",":","d","a","n","c","e",":","x","]">>,
      <<" ","h","i"," ">> }

\* the responses made of at most n pieces
RECURSIVE Concats(_)
Concats(n) ==
    IF n = 0 THEN {<<>>}
    ELSE Concats(n - 1) \cup { t \o piece : t \in Concats(n - 1), piece \in Pieces }

\* _extract_actions(text) is called, once in a run: what it returns, or that it
\* raised
Extract(text) ==
    /\ returned.op = "-"
    /\ returned' = [task |-> 0, op |-> "_extract_actions", event_type |-> <<>>,
                    outcome |-> "-", ret |-> extract_result(text), at |-> now,
                    text |-> text]
    /\ UNCHANGED <<now, brainVars, pc, loc, bridgeVars, appended>>

NextExtract == \E text \in Concats(MaxTags) : Extract(text)

\* the command extractor on every response of at most MaxTags pieces
SpecExtract == InitBrain /\ [][NextExtract]_vars

(* ------------------ the history called on its own --------------------- *)

MaxAppends == 2 * HISTORY_LENGTH + 2

\* history.add_user(text, game_state)
AddUser(text, gs) ==
    /\ Len(appended) < MaxAppends
    /\ turns' = add_user(turns, text, gs)
    /\ appended' = Append(appended, user_turn(text, gs))
    /\ UNCHANGED <<now, voice_active, last_event_time, proactive_lock, proactive_queue,
                   game_state, taskVars, bridgeVars>>

\* history.add_assistant(text)
AddAssistant(text) ==
    /\ Len(appended) < MaxAppends
    /\ turns' = add_assistant(turns, text)
    /\ appended' = Append(appended, assistant_turn(text))
    /\ UNCHANGED <<now, voice_active, last_event_time, proactive_lock, proactive_queue,
                   game_state, taskVars, bridgeVars>>

NextHistory ==
    \/ \E text \in { <<"h","i">>, <<"o","k">> }, gs \in { EmptyDict, [playerHealth |-> 20] } :
          AddUser(text, gs)
    \/ \E text \in { <<"h","i">>, <<"o","k">> } : AddAssistant(text)

\* a ConversationHistory(max_turns = HISTORY_LENGTH) under every sequence of appends
SpecHistory == InitBrain /\ [][NextHistory]_vars

(* ------------------ ws_server.py: connections and sends ---------------- *)

PingTimestamp == 7

\* ping envelopes, with and without a timestamp
Pings ==
    { [json |-> "dict", msg |-> [type |-> "ping", timestamp |-> PingTimestamp]],
      [json |-> "dict", msg |-> [type |-> "ping"]] }

\* the payloads that reach no handler: text that is no JSON, bytes that are no
\* UTF-8, a dict whose type is a list or a dict (unhashable), a JSON list, a dict without a type, with an unknown type, an action, a
\* pong, and the pings
BridgePayloads ==
    { [json |-> "invalid", msg |-> EmptyDict],
      [json |-> "undecodable", msg |-> EmptyDict],
      [json |-> "unhashable", msg |-> EmptyDict],
      [json |-> "list", msg |-> EmptyDict],
      [json |-> "dict", msg |-> [timestamp |-> PingTimestamp]],
      [json |-> "dict", msg |-> [type |-> "hello"]],
      [json |-> "dict", msg |-> [type |-> "action"]],
      [json |-> "dict", msg |-> [type |-> "pong", timestamp |-> PingTimestamp]] } \cup Pings

\* what callers of send_action and send_chat pass
BridgeActions == { [action |-> "flee", params |-> EmptyDict] }
ChatTexts == { <<"h","i">> }

IsType(payload, type) == validate_message(payload) /\ payload.msg.type = type

RetBool(res) == [kind |-> res, text |-> <<>>, actions |-> <<>>]

\* asyncio.create_task(self._run_game_event(msg)): the task takes the first slot
\* not in use; arrival records what holds when the envelope arrives
create_task(c, msg) ==
    [tasks EXCEPT ![CHOOSE k \in Calls : /\ tasks[k].st = "free"
                                         /\ \A j \in 1..(k - 1) : tasks[j].st # "free"] =
        [NoTask EXCEPT
            !.st = "created", !.msg = msg,
            !.arrival = [conn |-> c, live |-> connection = c, voice_active |-> voice_active,
                         cooldown |-> CooldownSuppressed(Get(msg, "event_type", <<>>)),
                         lock |-> proactive_lock]]]

\* the pong branch of _dispatch: the read loop awaits _send, and reads on once
\* _send has returned
dispatch_ping(r, c) ==
    [r.b EXCEPT !.conns[c].reader = IF r.done THEN "reading" ELSE "sending"]

\* a _dispatch that awaits the handler of a game_event instead of creating a task
dispatch_awaiting(b, c, payload) ==
    IF payload.json \in {"undecodable", "unhashable"}
    THEN [reader_exit(b, c) EXCEPT !.conns[c].open = FALSE]
    ELSE IF IsType(payload, "ping")
    THEN dispatch_ping(send(b, <<"reader", c>>,
                            make_pong(Get(payload.msg, "timestamp", now))), c)
    ELSE IF IsType(payload, "game_event")
    THEN [b EXCEPT !.conns[c].reader = "handling"]
    ELSE b

\* WSServer._dispatch on a payload, but for the task a game_event starts. Bytes
\* that are not UTF-8 make json.loads raise UnicodeDecodeError, which is no
\* JSONDecodeError, and a type that is a list or a dict makes "in VALID_TYPES" of
\* validate_message raise TypeError: either leaves _dispatch and the read loop, the
\* finally block runs and the websocket is closed
dispatch(b, c, payload) ==
    IF payload.json \in {"undecodable", "unhashable"}
    THEN [reader_exit(b, c) EXCEPT !.conns[c].open = FALSE]
    ELSE IF IsType(payload, "ping")
    THEN dispatch_ping(send(b, <<"reader", c>>,
                            make_pong(Get(payload.msg, "timestamp", now))), c)
    ELSE b

\* websockets accepts a peer (at most `limit` in a run) and starts
\* _handle_connection: the slot is set, the heartbeat task created, the read loop
\* waits
Connect(limit) ==
    /\ Len(conns) < limit
    /\ SetBridge([Bridge EXCEPT !.connection = Len(conns) + 1,
                                !.conns = Append(@, [open |-> TRUE, reader |-> "reading",
                                                     heartbeat |-> "sleeping"]),
                                !.outbox = Append(@, <<>>)])
    /\ UNCHANGED <<now, brainVars, taskVars, tasks, appended>>

\* the peer closes the websocket, or the network drops it
Close(c) ==
    /\ c \in 1..Len(conns)
    /\ conns[c].open
    /\ SetBridge([Bridge EXCEPT !.conns[c].open = FALSE])
    /\ UNCHANGED <<now, brainVars, taskVars, tasks, appended>>

\* the read loop of a closed websocket ends (ConnectionClosed, or the end of the
\* iteration) and the finally block runs
ReaderClosed(c) ==
    /\ c \in 1..Len(conns)
    /\ ~conns[c].open
    /\ conns[c].reader = "reading"
    /\ SetBridge(reader_exit(Bridge, c))
    /\ UNCHANGED <<now, brainVars, taskVars, tasks, appended>>

\* the read loop receives a payload and runs _dispatch up to its first suspension
Receive(c, payload) ==
    /\ c \in 1..Len(conns)
    /\ conns[c].open
    /\ conns[c].reader = "reading"
    /\ (IsType(payload, "ping") /\ Live(Bridge)) => Volume(Bridge) < MaxOutbox
    /\ IsType(payload, "game_event") => \E k \in Calls : tasks[k].st = "free"
    /\ SetBridge(dispatch(Bridge, c, payload))
    /\ tasks' = IF IsType(payload, "game_event") THEN create_task(c, payload.msg) ELSE tasks
    /\ UNCHANGED <<now, brainVars, taskVars, appended>>

\* the read loop, suspended in the _send of a pong, goes on
ReaderSendStep(c) ==
    /\ sends[<<"reader", c>>].st \in {"granted", "writing"}
    /\ SetBridge(dispatch_ping(send_step(Bridge, <<"reader", c>>), c))
    /\ UNCHANGED <<now, brainVars, taskVars, tasks, appended>>

\* _heartbeat: the sleep is over, websocket.send begins, outside the send lock; on a
\* closed websocket it raises ConnectionClosed and the loop breaks
HeartbeatWake(c) ==
    /\ c \in 1..Len(conns)
    /\ conns[c].heartbeat = "sleeping"
    /\ conns[c].open => Volume(Bridge) < MaxOutbox
    /\ SetBridge([Bridge EXCEPT !.conns[c].heartbeat =
                                    IF conns[c].open THEN "writing" ELSE "ended"])
    /\ UNCHANGED <<now, brainVars, taskVars, tasks, appended>>

\* _heartbeat: the write of the ping ends
HeartbeatWritten(c) ==
    /\ c \in 1..Len(conns)
    /\ conns[c].heartbeat = "writing"
    /\ SetBridge(IF conns[c].open
                 THEN [Bridge EXCEPT !.conns[c].heartbeat = "sleeping",
                                     !.outbox[c] = Append(@, [type |-> "ping", timestamp |-> now])]
                 ELSE [Bridge EXCEPT !.conns[c].heartbeat = "ended"])
    /\ UNCHANGED <<now, brainVars, taskVars, tasks, appended>>

\* the return of a send_action or send_chat call, once it has returned: the
\* envelope it was to send, the branch of _send it took, the websocket it wrote to
Returns(j, msg, r) ==
    returned' = IF r.done
                THEN [task |-> j, op |-> "send_action", event_type |-> <<>>,
                      outcome |-> r.why, ret |-> RetBool(r.res), at |-> now,
                      msg |-> msg, target |-> r.target]
                ELSE returned

\* a coroutine calls ws_server.send_action(action, params)
CallSendAction(j, action) ==
    /\ sends[<<"caller", j>>].st = "idle"
    /\ Live(Bridge) => Volume(Bridge) < MaxOutbox
    /\ SetBridge(send_action(Bridge, <<"caller", j>>, action.action, action.params).b)
    /\ Returns(j, [type |-> "action", action |-> action.action, params |-> action.params],
               send_action(Bridge, <<"caller", j>>, action.action, action.params))
    /\ UNCHANGED <<now, brainVars, pc, loc, tasks, appended>>

\* a coroutine calls ws_server.send_chat(message)
CallSendChat(j, message) ==
    /\ sends[<<"caller", j>>].st = "idle"
    /\ Live(Bridge) => Volume(Bridge) < MaxOutbox
    /\ SetBridge(send_chat(Bridge, <<"caller", j>>, message).b)
    /\ Returns(j, [type |-> "action", action |-> "send_chat",
                   params |-> [message |-> Take(message, CHAT_LIMIT)]],
               send_chat(Bridge, <<"caller", j>>, message))
    /\ UNCHANGED <<now, brainVars, pc, loc, tasks, appended>>

\* a caller suspended in _send goes on
CallerSendStep(j) ==
    /\ sends[<<"caller", j>>].st \in {"granted", "writing"}
    /\ SetBridge(send_step(Bridge, <<"caller", j>>).b)
    /\ Returns(j, sends[<<"caller", j>>].msg, send_step(Bridge, <<"caller", j>>))
    /\ UNCHANGED <<now, brainVars, pc, loc, tasks, appended>>

NextBridge ==
    \/ Connect(MaxConns)
    \/ \E c \in Conns : Close(c)
    \/ \E c \in Conns : ReaderClosed(c)
    \/ \E c \in Conns, payload \in BridgePayloads : Receive(c, payload)
    \/ \E c \in Conns : ReaderSendStep(c)
    \/ \E c \in Conns : HeartbeatWake(c)
    \/ \E c \in Conns : HeartbeatWritten(c)
    \/ \E j \in Callers, action \in BridgeActions : CallSendAction(j, action)
    \/ \E j \in Callers, message \in ChatTexts : CallSendChat(j, message)
    \/ \E j \in Callers : CallerSendStep(j)

\* the bridge server under every interleaving of its read loops, its heartbeat
\* tasks, peers that connect and close, and concurrent callers of send_action and
\* send_chat
SpecBridge == InitBrain /\ [][NextBridge]_vars

(* ----------------------- main.py: the orchestrator --------------------- *)

\* the envelopes of proactive events (those of ProactiveEvents), and of every kind
ProactiveGameEvents ==
    { [json |-> "dict",
       msg |-> [type |-> "game_event", event_type |-> EVENT_TYPE.mob_spawn,
                data |-> [name |-> <<"z","o","m","b","i","e">>, distance |-> 5]]],
      [json |-> "dict",
       msg |-> [type |-> "game_event", event_type |-> EVENT_TYPE.night_fall, data |-> EmptyDict]] }
GameEvents ==
    ProactiveGameEvents \cup
    { [json |-> "dict",
       msg |-> [type |-> "game_event", event_type |-> EVENT_TYPE.game_state,
                data |-> [playerHealth |-> 20]]],
      [json |-> "dict",
       msg |-> [type |-> "game_event", event_type |-> EVENT_TYPE.bot_joined,
                data |-> [playerName |-> <<"A","l">>]]],
      [json |-> "dict",
       msg |-> [type |-> "game_event", event_type |-> EVENT_TYPE.player_message,
                data |-> [username |-> <<"A","l">>, message |-> <<"h","i">>]]] }

\* the websockets accepted while the orchestrator runs
MaxPeers == 1

\* msg.get("event_type", "") and msg.get("data", {})
EventType(k) == Get(tasks[k].msg, "event_type", <<>>)
EventData(k) == Get(tasks[k].msg, "data", EmptyDict)

\* one send_action call of a task as the run records it
LogEntry(action, r) ==
    [action |-> action.action, res |-> r.res, why |-> r.why, target |-> r.target]

\* a response handler that forwards no action
skipped_all(action) == TRUE

\* "if action["action"] == "send_chat": continue"
skipped(action) == action.action = "send_chat"

\* the for loop of handle_response over the actions left, up to the first
\* send_action that suspends: the server's state, the actions from the suspended one
\* on, and the calls that returned
RECURSIVE forward(_, _, _, _), forward_sent(_, _, _, _)
forward(b, k, actions, log) ==
    IF actions = <<>>
    THEN [b |-> b, rest |-> <<>>, pending |-> FALSE, log |-> log]
    ELSE IF skipped(Head(actions))
    THEN forward(b, k, Tail(actions), log)
    ELSE forward_sent(send_action(b, <<"task", k>>, Head(actions).action,
                                  Get(Head(actions), "params", EmptyDict)),
                      k, actions, log)

forward_sent(r, k, actions, log) ==
    IF r.done
    THEN forward(r.b, k, Tail(actions), Append(log, LogEntry(Head(actions), r)))
    ELSE [b |-> r.b, rest |-> actions, pending |-> TRUE, log |-> log]

\* the task after the loop went as far as f: suspended in a send_action, awaiting
\* the tts and chat tasks, or (on_game_event's own follow_player) at its end
settle(task, f) ==
    [task EXCEPT !.rest = f.rest, !.log = f.log,
                 !.st = IF f.pending THEN "acting"
                        ELSE IF task.tts = "-" THEN "done" ELSE "joining"]

\* handle_response(text, actions) up to its first suspension
handle_response(b, k, task, text, actions) ==
    IF text = <<>>
    THEN [b |-> b, task |-> [task EXCEPT !.st = "done", !.handled = RetPair(text, actions)]]
    ELSE [b |-> forward(b, k, actions, <<>>).b,
          task |-> settle([task EXCEPT !.handled = RetPair(text, actions),
                                       !.clean = collapsed(text),
                                       !.tts = "created", !.chat = "created"],
                          forward(b, k, actions, <<>>))]

\* a _run_game_event without its try block: the handler's exception reaches the
\* connection, whose read loop ends
respond_propagating(b, k, task, result) ==
    IF result.kind = "raised"
    THEN [b |-> [reader_exit(b, task.arrival.conn) EXCEPT !.conns[task.arrival.conn].open = FALSE],
          task |-> [task EXCEPT !.st = "done", !.outcome = "raised"]]
    ELSE handle_response(b, k, task, result.text, result.actions)

\* the task after brain.think or brain.handle_game_event returned `result`: an
\* exception ends it in _run_game_event, a pair goes to handle_response
respond(b, k, task, result) ==
    IF result.kind = "raised"
    THEN [b |-> b, task |-> [task EXCEPT !.st = "done", !.outcome = "raised"]]
    ELSE handle_response(b, k, task, result.text, result.actions)

SetTask(k, task) == tasks' = [tasks EXCEPT ![k] = task]

\* on_game_event, the game_state branch
StartGameState(k) ==
    /\ tasks[k].st = "created"
    /\ EventType(k) = EVENT_TYPE.game_state
    /\ update_game_state(EventData(k))
    /\ SetTask(k, [tasks[k] EXCEPT !.st = "done"])
    /\ UNCHANGED <<now, taskVars, connection, send_lock, conns, outbox, sends, appended>>

\* on_game_event, the bot_joined / bot_disconnected branch
StartBotEvent(k) ==
    /\ tasks[k].st = "created"
    /\ EventType(k) \in {EVENT_TYPE.bot_joined, EVENT_TYPE.bot_disconnected}
    /\ LET follow == IF EventType(k) = EVENT_TYPE.bot_joined
                        /\ Get(EventData(k), "playerName", <<>>) # <<>>
                     THEN <<[action |-> "follow_player",
                             params |-> [name |-> EventData(k).playerName]]>>
                     ELSE <<>>
       IN  /\ SetBridge(forward(Bridge, k, follow, <<>>).b)
           /\ SetTask(k, settle(tasks[k], forward(Bridge, k, follow, <<>>)))
    /\ UNCHANGED <<now, brainVars, taskVars, appended>>

\* on_game_event, the player_message branch, up to the await inside brain.think
StartPlayerMessage(k) ==
    /\ tasks[k].st = "created"
    /\ EventType(k) = EVENT_TYPE.player_message
    /\ IF Get(EventData(k), "message", <<>>) # <<>>
       THEN /\ think_begin(Get(EventData(k), "username", <<>>) \o <<" ","s","a","y","s"," ","i","n"," ","c","h","a","t",":"," ">>
                           \o EventData(k).message)
            /\ pc' = [pc EXCEPT ![k] = "think_await"]
            /\ loc' = [loc EXCEPT ![k] = [op |-> "think", event_type |-> <<>>]]
            /\ SetTask(k, [tasks[k] EXCEPT !.st = "brain"])
       ELSE /\ SetTask(k, [tasks[k] EXCEPT !.st = "done"])
            /\ UNCHANGED <<brainVars, pc, loc>>
    /\ UNCHANGED <<now, returned, connection, send_lock, conns, outbox, sends, appended>>

\* on_game_event, every other type: brain.handle_game_event up to its return None
\* or its await
StartProactive(k) ==
    /\ tasks[k].st = "created"
    /\ EventType(k) \notin {EVENT_TYPE.game_state, EVENT_TYPE.bot_joined, EVENT_TYPE.bot_disconnected, EVENT_TYPE.player_message}
    /\ handle_game_event_begin(EventType(k), EventData(k))
    /\ IF Outcome(EventType(k)) = "admitted"
       THEN /\ pc' = [pc EXCEPT ![k] = "event_await"]
            /\ loc' = [loc EXCEPT ![k] = [op |-> "handle_game_event",
                                          event_type |-> EventType(k)]]
            /\ SetTask(k, [tasks[k] EXCEPT !.st = "brain", !.outcome = "admitted"])
       ELSE /\ SetTask(k, [tasks[k] EXCEPT !.st = "done",
                                          !.outcome = Outcome(EventType(k))])
            /\ UNCHANGED <<pc, loc>>
    /\ UNCHANGED <<now, returned, connection, send_lock, conns, outbox, sends, appended>>

\* the completion of the task's think or handle_game_event call returns or fails:
\* the call runs to its end, and on_game_event goes on into handle_response up to
\* its first suspension
TaskResume(k, answer) ==
    /\ tasks[k].st = "brain"
    /\ IF pc[k] = "think_await"
       THEN think_end(call_claude(answer))
       ELSE handle_game_event_end(call_claude(answer))
    /\ pc' = [pc EXCEPT ![k] = "idle"]
    /\ loc' = [loc EXCEPT ![k] = NoCall]
    /\ SetBridge(respond(Bridge, k, tasks[k], extract_result(call_claude(answer))).b)
    /\ SetTask(k, respond(Bridge, k, tasks[k], extract_result(call_claude(answer))).task)
    /\ UNCHANGED <<now, returned, appended>>

\* what the task does when its suspended send_action has returned: the call is
\* recorded and the loop goes on
after_send(k, task, r) ==
    IF r.done
    THEN forward(r.b, k, Tail(task.rest), Append(task.log, LogEntry(Head(task.rest), r)))
    ELSE [b |-> r.b, rest |-> task.rest, pending |-> TRUE, log |-> task.log]

\* a task suspended in the _send of a send_action goes on
TaskSendStep(k) ==
    /\ sends[<<"task", k>>].st \in {"granted", "writing"}
    /\ SetBridge(after_send(k, tasks[k], send_step(Bridge, <<"task", k>>)).b)
    /\ SetTask(k, settle(tasks[k], after_send(k, tasks[k], send_step(Bridge, <<"task", k>>))))
    /\ UNCHANGED <<now, brainVars, taskVars, appended>>

\* the chat task of handle_response starts: ws_server.send_chat(clean)
ChatStart(k) ==
    /\ tasks[k].chat = "created"
    /\ SetBridge(send_chat(Bridge, <<"chat", k>>, tasks[k].clean).b)
    /\ SetTask(k, [tasks[k] EXCEPT !.chat =
                      IF send_chat(Bridge, <<"chat", k>>, tasks[k].clean).done
                      THEN "done" ELSE "sending"])
    /\ UNCHANGED <<now, brainVars, taskVars, appended>>

\* the chat task, suspended in _send, goes on
ChatSendStep(k) ==
    /\ sends[<<"chat", k>>].st \in {"granted", "writing"}
    /\ SetBridge(send_step(Bridge, <<"chat", k>>).b)
    /\ SetTask(k, [tasks[k] EXCEPT !.chat =
                      IF send_step(Bridge, <<"chat", k>>).done THEN "done" ELSE "sending"])
    /\ UNCHANGED <<now, brainVars, taskVars, appended>>

\* the tts task of handle_response runs TTS.speak to its end (speak catches what
\* the engines raise)
SpeakDone(k) ==
    /\ tasks[k].tts = "created"
    /\ SetTask(k, [tasks[k] EXCEPT !.tts = "done"])
    /\ UNCHANGED <<now, brainVars, taskVars, connection, send_lock, conns, outbox, sends,
                   appended>>

\* "await tts_task; await chat_task": handle_response and the task end
TaskJoin(k) ==
    /\ tasks[k].st = "joining"
    /\ tasks[k].tts = "done"
    /\ tasks[k].chat = "done"
    /\ SetTask(k, [tasks[k] EXCEPT !.st = "done"])
    /\ UNCHANGED <<now, brainVars, taskVars, connection, send_lock, conns, outbox, sends,
                   appended>>

\* one step of the task of a proactive game event
ProactiveStep(k) ==
    \/ StartProactive(k)
    \/ TaskSendStep(k)
    \/ ChatStart(k)
    \/ ChatSendStep(k)
    \/ SpeakDone(k)
    \/ TaskJoin(k)

Next ==
    \/ Connect(MaxPeers)
    \/ \E c \in Conns : Close(c)
    \/ \E c \in Conns : ReaderClosed(c)
    \/ \E c \in Conns, payload \in ProactiveGameEvents : Receive(c, payload)
    \/ \E active \in BOOLEAN : SetVoiceActive(active)
    \/ \E k \in Calls : ProactiveStep(k)
    \/ \E k \in Calls, answer \in GateAnswers : TaskResume(k, answer)

\* the event loop runs every task that is ready, the completion call and a write
\* on a websocket end, the read loop of a closed websocket ends
Fairness ==
    /\ \A k \in Calls : WF_vars(ProactiveStep(k))
    /\ \A k \in Calls : WF_vars(\E answer \in GateAnswers : TaskResume(k, answer))
    /\ \A c \in Conns : WF_vars(ReaderClosed(c))

\* the orchestrator as wired, on proactive game events: they arrive on a websocket
\* that connects and may close, each runs as its task through the engine and the
\* response handler, the completion answering with the flee reply, the clock
\* standing still
Spec == InitBrain /\ [][Next]_vars /\ Fairness

NextOrchestrator ==
    \/ Connect(MaxPeers)
    \/ \E c \in Conns : Close(c)
    \/ \E c \in Conns : ReaderClosed(c)
    \/ \E c \in Conns, payload \in GameEvents : Receive(c, payload)
    \/ \E active \in BOOLEAN : SetVoiceActive(active)
    \/ \E k \in Calls : StartGameState(k)
    \/ \E k \in Calls : StartBotEvent(k)
    \/ \E k \in Calls : StartPlayerMessage(k)
    \/ \E k \in Calls : ProactiveStep(k)
    \/ \E k \in Calls, answer \in GateAnswers : TaskResume(k, answer)

\* the orchestrator as wired, on game events of every kind
SpecOrchestrator == InitBrain /\ [][NextOrchestrator]_vars

\* what the completion answers to a handler: a reply with a tag and text, a reply
\* whose look_at tag makes the extraction raise, a failure, a reply made of a tag only
HandlerAnswers ==
    Answers \cup { [failed |-> FALSE,
                    text |-> <<"[","A","C","T","I","O","N",":","f","l","e","e","]">>] }

\* the read loop and the handlers of game events of every kind, under every answer
SpecHandler ==
    InitBrain /\ [][\/ Connect(MaxPeers)
                    \/ \E c \in Conns, payload \in GameEvents \cup Pings : Receive(c, payload)
                    \/ \E c \in Conns : ReaderSendStep(c)
                    \/ \E k \in Calls : StartGameState(k)
                    \/ \E k \in Calls : StartBotEvent(k)
                    \/ \E k \in Calls : StartPlayerMessage(k)
                    \/ \E k \in Calls : ProactiveStep(k)
                    \/ \E k \in Calls, answer \in HandlerAnswers : TaskResume(k, answer)]_vars

\* the replies that reach handle_response: a short one with an action, a long one
ChatAnswers == { [failed |-> FALSE, text |-> r] : r \in {R_flee, R_long} }

NextChat ==
    \/ Connect(MaxPeers)
    \/ \E c \in Conns, payload \in GameEvents : Receive(c, payload)
    \/ \E k \in Calls : StartGameState(k)
    \/ \E k \in Calls : StartBotEvent(k)
    \/ \E k \in Calls : StartPlayerMessage(k)
    \/ \E k \in Calls : ProactiveStep(k)
    \/ \E k \in Calls, answer \in ChatAnswers : TaskResume(k, answer)

\* the orchestrator on game events of every kind, with short and long replies
SpecChat == InitBrain /\ [][NextChat]_vars

NextDispatch ==
    \/ Connect(MaxPeers)
    \/ \E c \in Conns, payload \in ProactiveGameEvents \cup Pings : Receive(c, payload)
    \/ \E c \in Conns : ReaderSendStep(c)
    \/ \E k \in Calls : ProactiveStep(k)
    \/ \E k \in Calls, answer \in GateAnswers : TaskResume(k, answer)

\* the read loop of one websocket on game events and pings, the handler tasks it
\* creates running beside it
SpecDispatch == InitBrain /\ [][NextDispatch]_vars

(* ------------------------------ claims -------------------------------- *)

\* the cooldown the claims speak of: the configured one, 30 s for an unlisted type
ClaimCooldown(event_type) ==
    IF event_type \in DOMAIN COOLDOWNS THEN COOLDOWNS[event_type] ELSE 30

\* a step is a handle_game_event call of coroutine k that returns None
ReturnsNone(k) ==
    /\ returned'.task = k
    /\ returned'.op = "handle_game_event"
    /\ returned'.ret = RetNone
    /\ pc'[k] = "idle"

\* C1: a handle_game_event call for a type stamped at t, made at a time t' with
\* t' - t < cooldown (30 s for an unlisted type), returns None and leaves the stamp
\* of the type at t, also while the call that stamped it awaits its completion.
C1_CooldownSuppresses ==
    [][\A k \in Calls, ev \in ProactiveEvents :
        ( /\ CallHandleGameEvent(k, ev)
          /\ ev.event_type \in DOMAIN last_event_time
          /\ now - last_event_time[ev.event_type] < ClaimCooldown(ev.event_type) )
        => /\ ReturnsNone(k)
           /\ ev.event_type \in DOMAIN last_event_time'
           /\ last_event_time'[ev.event_type] = last_event_time[ev.event_type]]_vars

\* a call was suppressed by the cooldown at a later time than the stamp, while the
\* call that stamped the type still awaits its completion
C1_Witness ==
    \E j \in Calls :
        /\ pc[j] = "event_await"
        /\ returned.op = "handle_game_event"
        /\ returned.outcome = "cooldown"
        /\ returned.event_type = loc[j].event_type
        /\ returned.task # j
        /\ last_event_time[loc[j].event_type] = StartTime
        /\ returned.at > StartTime

\* C2: a handle_game_event call made while voice-active is true returns None and
\* leaves the cooldown table, the pending queue and the context window unchanged.
C2_VoiceSuppresses ==
    [][\A k \in Calls, ev \in ProactiveEvents :
        (CallHandleGameEvent(k, ev) /\ voice_active)
        => /\ ReturnsNone(k)
           /\ UNCHANGED <<last_event_time, proactive_queue, turns>>]_vars

\* a call was suppressed by the voice flag with its type out of cooldown and the
\* lock held
C2_Witness ==
    /\ returned.outcome = "voice"
    /\ returned.at = now
    /\ voice_active
    /\ proactive_lock
    /\ returned.event_type \notin DOMAIN last_event_time

\* C3: at most one handle_game_event call is between acquiring and releasing the
\* in-flight lock, and the lock is held exactly while there is one.
C3_OneInFlight ==
    /\ Cardinality({k \in Calls : pc[k] = "event_await"}) <= 1
    /\ proactive_lock <=> (\E k \in Calls : pc[k] = "event_await")

\* a call found the lock held by another call that is still in flight
C3_Witness ==
    /\ \E k \in Calls : pc[k] = "event_await" /\ k # returned.task
    /\ returned.outcome \in {"queued", "dropped"}
    /\ returned.at = now

\* C4: a handle_game_event call that passes the voice and cooldown checks while
\* the lock is held returns None, stamps nothing and appends no turn; it appends
\* (event_type, data) to the queue below capacity and leaves the queue unchanged at
\* capacity; the queue is never longer than its capacity.
C4_QueueOrDrop ==
    /\ [](Len(proactive_queue) <= MAX_QUEUE_DEPTH)
    /\ [][\A k \in Calls, ev \in ProactiveEvents :
            ( /\ CallHandleGameEvent(k, ev)
              /\ ~voice_active
              /\ ~(now - Get(last_event_time, ev.event_type, 0) < ClaimCooldown(ev.event_type))
              /\ proactive_lock )
            => /\ ReturnsNone(k)
               /\ UNCHANGED <<last_event_time, turns>>
               /\ proactive_queue' =
                      IF Len(proactive_queue) < MAX_QUEUE_DEPTH
                      THEN Append(proactive_queue, <<ev.event_type, ev.data>>)
                      ELSE proactive_queue]_vars

\* a call was dropped at a full queue
C4_Witness ==
    /\ returned.outcome = "dropped"
    /\ Len(proactive_queue) = MAX_QUEUE_DEPTH
    /\ proactive_lock

\* the window after one more turn, as the claims state it: the newest turns, at
\* most 2 * max_turns of them
Window(ts) ==
    IF Len(ts) > 2 * HISTORY_LENGTH
    THEN SubSeq(ts, Len(ts) - 2 * HISTORY_LENGTH + 1, Len(ts))
    ELSE ts

\* C5: every think call appends its user turn (the text after the current
\* snapshot), and when its completion ends it appends one assistant turn and
\* returns a (text, actions) pair; it changes neither the cooldown table nor the
\* pending queue nor the lock, whatever their state and the voice flag.
C5_ThinkAlwaysAnswers ==
    [][\A k \in Calls :
        /\ \A user_input \in ThinkInputs :
              CallThink(k, user_input)
              => /\ turns' = Window(Append(turns, user_turn(user_input, game_state)))
                 /\ UNCHANGED <<last_event_time, proactive_queue, proactive_lock>>
        /\ \A answer \in Answers :
              ThinkResume(k, answer)
              => /\ returned'.task = k
                 /\ returned'.ret.kind = "pair"
                 /\ \E response \in Responses :
                        turns' = Window(Append(turns, assistant_turn(response)))
                 /\ UNCHANGED <<last_event_time, proactive_queue, proactive_lock>>]_vars

\* the completion fails
Failure == [failed |-> TRUE, text |-> <<>>]

\* C6: when the completion fails, think and an admitted handle_game_event do not
\* raise: they return the fallback utterance with no actions and append that text
\* as the one assistant turn of the call.
C6_FallbackOnFailure ==
    [][\A k \in Calls :
        (ThinkResume(k, Failure) \/ EventResume(k, Failure))
        => /\ returned'.task = k
           /\ returned'.ret = RetPair(FALLBACK, <<>>)
           /\ turns' = Window(Append(turns, assistant_turn(FALLBACK)))]_vars

\* an admitted handle_game_event call returned the fallback after its user turn
C6_Witness ==
    /\ returned.op = "handle_game_event"
    /\ returned.ret = RetPair(FALLBACK, <<>>)
    /\ Len(turns) = 2
    /\ turns[1].role = "user"
    /\ turns[2] = assistant_turn(FALLBACK)

\* C7: after k appends the window holds the min(k, 2N) most recently appended
\* turns in their order; it is never longer than 2N.
C7_NewestTurns ==
    /\ Len(turns) <= 2 * HISTORY_LENGTH
    /\ turns = SubSeq(appended,
                      Len(appended) - (IF Len(appended) < 2 * HISTORY_LENGTH
                                       THEN Len(appended) ELSE 2 * HISTORY_LENGTH) + 1,
                      Len(appended))

\* 2N+1 turns were appended, user and assistant in turn, and 2N are held
C7_Witness ==
    /\ Len(appended) = 2 * HISTORY_LENGTH + 1
    /\ Len(turns) = 2 * HISTORY_LENGTH
    /\ \A i \in 1..Len(appended) :
          appended[i].role = IF i % 2 = 1 THEN "user" ELSE "assistant"

\* a send_action or send_chat call of caller j returns false in this step, writes
\* nothing and leaves nothing behind that could be sent later
FailsFast(j) ==
    /\ returned'.task = j
    /\ returned'.op = "send_action"
    /\ returned'.ret = RetBool("false")
    /\ outbox' = outbox
    /\ sends'[<<"caller", j>>] = NoSend
    /\ \A i \in 1..Len(send_lock'.waiters) : send_lock'.waiters[i] # <<"caller", j>>
    /\ \A c \in 1..Len(conns') : conns'[c].heartbeat = conns[c].heartbeat

\* caller j calls send_action or send_chat in this step
CallsSend(j) ==
    \/ \E action \in BridgeActions : CallSendAction(j, action)
    \/ \E message \in ChatTexts : CallSendChat(j, message)

\* C8: send_action and send_chat return false, raise nothing, write nothing and
\* queue nothing when there is no live connection: when the slot is empty at the
\* call, when the slot is empty or refers to a closed websocket once the call holds
\* the send lock (also after waiting for it), and when the websocket closes under
\* the write.
C8_NoLiveConnection ==
    [][\A j \in Callers :
        /\ (CallsSend(j) /\ (connection = 0 \/ (~Live(Bridge) /\ ~send_lock.locked)))
           => FailsFast(j)
        /\ ( /\ CallerSendStep(j)
             /\ \/ sends[<<"caller", j>>].st = "granted" /\ ~Live(Bridge)
                \/ /\ sends[<<"caller", j>>].st = "writing"
                   /\ ~conns[sends[<<"caller", j>>].target].open )
           => FailsFast(j)]_vars

\* a call that waited for the send lock while the slot was cleared has returned
\* false
C8_Witness ==
    /\ returned.op = "send_action"
    /\ returned.outcome = "attribute_error"
    /\ returned.ret = RetBool("false")
    /\ connection = 0

\* C9: a ping received on an open websocket is answered by one pong written to that
\* websocket, with the ping's timestamp as ping_timestamp; it starts no task and
\* writes nothing else.
C9_PongOnSameConnection ==
    [][\A c \in Conns :
        /\ \A ping \in Pings :
              Receive(c, ping)
              => /\ sends'[<<"reader", c>>].st \in {"waiting", "writing"}
                 /\ sends'[<<"reader", c>>].msg.type = "pong"
                 /\ "timestamp" \in DOMAIN ping.msg
                    => sends'[<<"reader", c>>].msg.ping_timestamp = ping.msg.timestamp
                 /\ outbox' = outbox
                 /\ tasks' = tasks
        /\ (ReaderSendStep(c) /\ conns[c].open)
           => \/ /\ sends'[<<"reader", c>>].st = "writing"
                 /\ outbox' = outbox
              \/ /\ sends'[<<"reader", c>>] = NoSend
                 /\ outbox' = [outbox EXCEPT ![c] = Append(@, sends[<<"reader", c>>].msg)]]_vars

\* the task of a proactive game event
Proactive(k) ==
    /\ tasks[k].st # "free"
    /\ EventType(k) \notin {EVENT_TYPE.game_state, EVENT_TYPE.bot_joined, EVENT_TYPE.bot_disconnected, EVENT_TYPE.player_message}

\* the envelope arrived on the websocket in the slot, voice inactive, its type out
\* of cooldown, the lock free
ArrivedReady(k) ==
    /\ Proactive(k)
    /\ tasks[k].arrival.live
    /\ ~tasks[k].arrival.voice_active
    /\ ~tasks[k].arrival.cooldown
    /\ ~tasks[k].arrival.lock

FLEE == [action |-> "flee", params |-> EmptyDict]
RUNNING == <<"r","u","n","n","i","n","g","!">>

\* handle_response got the text "running!" and the one action flee
Handled(k) == tasks[k].handled = RetPair(RUNNING, <<FLEE>>)

\* the task's send_action for flee returned true and its envelope is on the
\* websocket it was written to
FleeSent(k) ==
    \E i \in 1..Len(tasks[k].log) :
        /\ tasks[k].log[i].action = "flee"
        /\ tasks[k].log[i].res = "true"
        /\ \E n \in 1..Len(outbox[tasks[k].log[i].target]) :
              outbox[tasks[k].log[i].target][n] =
                  [type |-> "action", action |-> "flee", params |-> EmptyDict]

\* C10 as stated: a proactive game event that arrives on the live connection with
\* voice inactive, its type out of cooldown and the lock free leads to the response
\* handler receiving "running!" with the one action flee and to a flee envelope
\* written to the connection.
C10_EndToEnd ==
    \A k \in Calls : ArrivedReady(k) ~> (Handled(k) /\ FleeSent(k))

\* brain.handle_game_event admitted the task's call
Admitted(k) == Proactive(k) /\ tasks[k].outcome = "admitted"

\* a websocket has closed
SomeClosed == \E c \in 1..Len(conns) : ~conns[c].open

\* C10, amended: when the task's handle_game_event call finds voice inactive, the
\* type out of cooldown and the lock free, the response handler receives "running!"
\* with the one action flee, and a flee envelope is eventually written to the
\* connection unless a websocket closes; the handler of a proactive event never
\* receives anything else.
C10_AdmittedEndToEnd ==
    /\ \A k \in Calls : Admitted(k) ~> (Handled(k) /\ (FleeSent(k) \/ SomeClosed))
    /\ [](\A k \in Calls : (Proactive(k) /\ tasks[k].handled # NoRet) => Handled(k))

\* an admitted proactive event was handled and its flee envelope written, every
\* websocket open
C10_Witness ==
    \E k \in Calls : Admitted(k) /\ Handled(k) /\ FleeSent(k) /\ ~SomeClosed

\* every envelope written to a websocket so far
Envelopes == UNION { { outbox[c][n] : n \in 1..Len(outbox[c]) } : c \in 1..Len(outbox) }

\* how many envelopes equal to e were written so far
RECURSIVE CountIn(_, _)
CountIn(box, e) ==
    IF box = <<>> THEN 0
    ELSE (IF Head(box) = e THEN 1 ELSE 0) + CountIn(Tail(box), e)
RECURSIVE Count(_, _)
Count(c, e) == IF c = 0 THEN 0 ELSE CountIn(outbox[c], e) + Count(c - 1, e)

FleeEnvelope == [type |-> "action", action |-> "flee", params |-> EmptyDict]
ChatEnvelope(text) == [type |-> "action", action |-> "send_chat", params |-> [message |-> text]]

\* the events whose reply reached the response handler
HandledCount == Cardinality({k \in Calls : Proactive(k) /\ Handled(k)})

\* C11 as stated: for the reply "[ACTION:flee] running!" the only action envelope
\* written is the one for flee; no action envelope carries the text "running!".
C11_OnlyFlee ==
    \A e \in Envelopes : e.type = "action" => e = FleeEnvelope

\* C11, amended: for the reply "[ACTION:flee] running!" the action envelopes written
\* are the one for flee and one send_chat envelope whose message is the reply text
\* "running!", at most one of each per reply handled; the text is never the name of
\* an action and is in no other envelope.
C11_FleeAndChat ==
    /\ \A e \in Envelopes : e \in {FleeEnvelope, ChatEnvelope(RUNNING)}
    /\ Count(Len(outbox), FleeEnvelope) <= HandledCount
    /\ Count(Len(outbox), ChatEnvelope(RUNNING)) <= HandledCount

\* a reply was handled and both its envelopes are written
C11_Witness ==
    /\ HandledCount = 1
    /\ Count(Len(outbox), FleeEnvelope) = 1
    /\ Count(Len(outbox), ChatEnvelope(RUNNING)) = 1

\* the writes in progress on websocket c: the coroutines inside the send of _send,
\* and the heartbeat task of c inside its own send
Writers(c) ==
    Cardinality({s \in Senders : sends[s].st = "writing" /\ sends[s].target = c})
    + (IF conns[c].heartbeat = "writing" THEN 1 ELSE 0)

\* C12: at most one write to a connection is in progress in every reachable state,
\* across send_action, send_chat, pong replies and heartbeat pings.
C12_OneWriter ==
    \A c \in 1..Len(conns) : Writers(c) <= 1

\* the payloads validate_message rejects or json.loads cannot parse
Invalid(payload) == ~validate_message(payload)

\* C13: an inbound payload that is unparsable (undecodable bytes included), is no
\* mapping or has a missing or unrecognized type is dropped: no handler task starts,
\* no envelope is written or queued for writing, the read loop goes on reading, the
\* websocket stays open and the slot is unchanged.
C13_InvalidDropped ==
    [][\A c \in Conns, payload \in BridgePayloads :
        (Invalid(payload) /\ Receive(c, payload))
        => /\ UNCHANGED <<connection, outbox, sends, tasks, send_lock>>
           /\ conns'[c].open
           /\ conns'[c].reader = "reading"
           /\ conns'[c].heartbeat = conns[c].heartbeat]_vars

\* a handler task has started or waits to start, and has not finished
Unfinished(k) == tasks[k].st \in {"created", "brain", "acting", "joining"}

\* the read loop of c has begun to answer the ping in this step: it is inside the
\* _send of the pong that echoes the timestamp
PongBegun(c, payload) ==
    /\ sends'[<<"reader", c>>].st \in {"waiting", "writing"}
    /\ sends'[<<"reader", c>>].msg.type = "pong"
    /\ sends'[<<"reader", c>>].msg.ping_timestamp = Get(payload.msg, "timestamp", now)

\* C14: while a handler started for an earlier game_event has not finished, the read
\* loop still receives and dispatches: a game_event starts a task of its own and
\* leaves the loop reading and the earlier handlers where they are, a ping is
\* answered with a pong; the read loop never waits for a
\* handler (it is suspended only inside its own send of a pong).
C14_HandlerIndependent ==
    /\ [](\A c \in 1..Len(conns) :
            /\ conns[c].reader \in {"reading", "sending", "ended"}
            /\ conns[c].reader = "sending" => sends[<<"reader", c>>].st # "idle")
    /\ [][\A c \in Conns, payload \in ProactiveGameEvents \cup Pings :
            (Receive(c, payload) /\ \E j \in Calls : Unfinished(j))
            => /\ IsType(payload, "game_event")
                  => /\ conns'[c].reader = "reading"
                     /\ \E k \in Calls :
                           /\ tasks[k].st = "free"
                           /\ tasks'[k].st = "created"
                           /\ tasks'[k].msg = payload.msg
                           /\ \A j \in Calls \ {k} : tasks'[j] = tasks[j]
                     /\ UNCHANGED <<brainVars, pc, loc>>
               /\ IsType(payload, "ping")
                  => PongBegun(c, payload) /\ UNCHANGED <<tasks, brainVars, pc, loc>>]_vars

\* a handler awaits the completion function while the handler of a later game_event
\* has run and found the lock held, and the read loop is sending the pong of a ping
\* received after both
C14_Witness ==
    \E k \in Calls, j \in Calls, c \in 1..Len(conns) :
        /\ tasks[k].st = "brain"
        /\ tasks[j].outcome = "queued"
        /\ conns[c].reader = "sending"
        /\ sends[<<"reader", c>>].st = "writing"

\* the websocket c is closed: the peer closed it or the network dropped it
Disconnected(c) == c \in 1..Len(conns) /\ ~conns[c].open

\* the coroutine s leaves _send through its ConnectionClosed branch in this step:
\* it holds the lock and finds the websocket in the slot closed, or the websocket
\* closed under its write
SendErrorOnClosed(s) ==
    \/ /\ sends[s].st = "granted"
       /\ connection # 0
       /\ Disconnected(connection)
    \/ /\ sends[s].st = "writing"
       /\ Disconnected(sends[s].target)

\* C15: on disconnect the heartbeat task of the connection is cancelled and the slot
\* cleared. When the read loop of a closed websocket ends, its heartbeat is
\* cancelled (or has ended) and the slot is empty; when _send meets a closed
\* websocket the slot is emptied and the call returns false; nothing, and no ping,
\* is written to a closed websocket and its heartbeat begins no write; while the
\* slot is empty every send_action and send_chat returns false at once, and only a
\* peer that connects fills the slot again.
C15_Disconnect ==
    /\ [](\A c \in 1..Len(conns) :
            conns[c].reader = "ended" => conns[c].heartbeat \in {"cancelled", "ended"})
    /\ [][/\ \A c \in Conns :
               /\ ReaderClosed(c)
                  => connection' = 0 /\ conns'[c].heartbeat \in {"cancelled", "ended"}
               /\ Disconnected(c)
                  => /\ outbox'[c] = outbox[c]
                     /\ conns'[c].heartbeat = "writing" => conns[c].heartbeat = "writing"
               /\ (ReaderSendStep(c) /\ SendErrorOnClosed(<<"reader", c>>))
                  => connection' = 0
          /\ \A j \in Callers :
               /\ ( \/ CallerSendStep(j) /\ SendErrorOnClosed(<<"caller", j>>)
                    \/ /\ CallsSend(j)
                       /\ connection # 0
                       /\ Disconnected(connection)
                       /\ ~send_lock.locked )
                  => /\ connection' = 0
                     /\ returned'.task = j
                     /\ returned'.outcome = "connection_closed"
                     /\ returned'.ret = RetBool("false")
               /\ (CallsSend(j) /\ connection = 0)
                  => /\ returned'.task = j
                     /\ returned'.outcome = "no_connection"
                     /\ returned'.ret = RetBool("false")
                     /\ connection' = 0
          /\ (connection = 0 /\ connection' # 0)
                  => /\ Len(conns') = Len(conns) + 1
                     /\ connection' = Len(conns')
                     /\ conns'[connection'].open]_vars

\* the only peer closed its websocket, the read loop ended, cancelled the sleeping
\* heartbeat and emptied the slot, and a later call returned false on the empty slot
C15_Witness ==
    \E c \in 1..Len(conns) :
        /\ Disconnected(c)
        /\ conns[c].reader = "ended"
        /\ conns[c].heartbeat = "cancelled"
        /\ connection = 0
        /\ Len(conns) = 1
        /\ returned.outcome = "no_connection"
        /\ returned.ret = RetBool("false")

\* the envelope is a send_chat action envelope
SendChatEnvelope(e) == e.type = "action" /\ e.action = "send_chat"

\* m is the first min(len(text), 250) characters of text
FirstChars(m, text) ==
    /\ Len(m) = IF Len(text) < CHAT_LIMIT THEN Len(text) ELSE CHAT_LIMIT
    /\ \A i \in 1..Len(m) : m[i] = text[i]

\* C16: every outbound chat message is at most 250 characters. The envelope the chat
\* task of handle_response sends for a text is a send_chat action envelope whose
\* message is the first min(len(text), 250) characters of the text, that envelope is
\* what is written to the peer, and no send_chat envelope written or being sent on
\* any path of the orchestrator has a longer message (the send_chat actions
\* extracted from tags are not forwarded).
C16_ChatTruncated ==
    /\ [](\A e \in Envelopes : SendChatEnvelope(e) => Len(e.params.message) <= CHAT_LIMIT)
    /\ [](\A s \in Senders :
            (sends[s].st # "idle" /\ SendChatEnvelope(sends[s].msg))
            => /\ s[1] = "chat"
               /\ FirstChars(sends[s].msg.params.message, tasks[s[2]].clean))
    /\ [][\A k \in Calls :
            /\ (ChatStart(k) /\ sends'[<<"chat", k>>].st # "idle")
               => /\ SendChatEnvelope(sends'[<<"chat", k>>].msg)
                  /\ FirstChars(sends'[<<"chat", k>>].msg.params.message, tasks[k].clean)
            /\ ( /\ ChatSendStep(k)
                 /\ sends[<<"chat", k>>].st = "writing"
                 /\ conns[sends[<<"chat", k>>].target].open )
               => outbox'[sends[<<"chat", k>>].target] =
                     Append(outbox[sends[<<"chat", k>>].target], sends[<<"chat", k>>].msg)]_vars

\* a reply left a text of 252 characters and a send_chat tag with a parameter of 252:
\* the peer got one send_chat envelope, with the first 250 characters of the text
C16_Witness ==
    \E k \in Calls, c \in 1..Len(outbox) :
        /\ Len(tasks[k].clean) > CHAT_LIMIT
        /\ \E i \in 1..Len(tasks[k].handled.actions) :
              /\ tasks[k].handled.actions[i].action = "send_chat"
              /\ Len(tasks[k].handled.actions[i].params.message) > CHAT_LIMIT
        /\ tasks[k].chat = "done"
        /\ Len(outbox[c]) = 1
        /\ SendChatEnvelope(outbox[c][1])
        /\ Len(outbox[c][1].params.message) = CHAT_LIMIT
        /\ outbox[c][1].params.message = SubSeq(tasks[k].clean, 1, CHAT_LIMIT)

\* the tags of a text: the matches of the tag grammar, left to right
Tags(text) == FindIter(text, 1)

\* the first and last index of every tag of the text from index i on
RECURSIVE Spans(_, _)
Spans(text, i) ==
    IF FirstMatch(text, i) = 0 THEN {}
    ELSE {<<FirstMatch(text, i), MatchAt(text, FirstMatch(text, i)).last>>}
         \cup Spans(text, MatchAt(text, FirstMatch(text, i)).last + 1)

\* the text without the characters of its tags
Removed(text) ==
    LET kept == SelectSeq([p \in 1..Len(text) |-> p],
                          LAMBDA p : \A sp \in Spans(text, 1) : p < sp[1] \/ p > sp[2])
    IN  [i \in 1..Len(kept) |-> text[kept[i]]]

\* the look_at actions the tags call for: one for every look_at tag whose parameter
\* splits on commas into 3 fields, with the fields as x, y, z
RECURSIVE ExpectedLookAts(_)
ExpectedLookAts(ms) ==
    IF ms = <<>> THEN <<>>
    ELSE (IF Head(ms).name = ACTION_TYPE.look_at /\ Len(Split(Head(ms).param, ",")) = 3
          THEN <<[action |-> "look_at",
                  params |-> [x |-> ParseFloat(Split(Head(ms).param, ",")[1]),
                              y |-> ParseFloat(Split(Head(ms).param, ",")[2]),
                              z |-> ParseFloat(Split(Head(ms).param, ",")[3])]]>>
          ELSE <<>>)
         \o ExpectedLookAts(Tail(ms))

\* C17: the extractor returns, for every look_at tag whose parameter splits on commas
\* into exactly 3 fields, a look_at action with the fields as x, y, z, for a
\* look_at tag with any other number of fields (no parameter included) no action,
\* and in both cases a clean text without the tag.
C17_LookAt ==
    returned.op = "_extract_actions"
    => /\ returned.ret.kind = "pair"
       /\ SelectSeq(returned.ret.actions, LAMBDA a : a.action = "look_at")
            = ExpectedLookAts(Tags(returned.text))
       /\ returned.ret.text = Strip(Removed(returned.text))

\* the tag's name is one of the eight names the extractor knows
Known(m) == \E f \in DOMAIN ACTION_TYPE : ACTION_TYPE[f] = m.name

\* the action names of the tags with a known name, left to right
KnownNames(text) ==
    LET known == SelectSeq(Tags(text), Known)
    IN  [i \in 1..Len(known) |->
            CHOOSE f \in DOMAIN ACTION_TYPE : ACTION_TYPE[f] = known[i].name]

\* C18: for every response text the extractor returns the text without its tags
\* (known or unknown name), trimmed, and an action list with one action per tag
\* with a known name, in the order of the tags, and none for the other tags; a
\* text without tags yields the trimmed text and no action.
C18_CleanAndOrdered ==
    returned.op = "_extract_actions"
    => /\ returned.ret.kind = "pair"
       /\ returned.ret.text = Strip(Removed(returned.text))
       /\ [i \in 1..Len(returned.ret.actions) |-> returned.ret.actions[i].action]
            = KnownNames(returned.text)
       /\ Tags(returned.text) = <<>>
          => returned.ret = RetPair(Strip(returned.text), <<>>)

\* the look_at tags of the text that call for an action: three fields, all numbers
NumericLookAts(text) ==
    SelectSeq(Tags(text),
              LAMBDA m : /\ m.name = ACTION_TYPE.look_at
                         /\ Len(Split(m.param, ",")) = 3
                         /\ \A i \in 1..3 : ParseFloat(Split(m.param, ",")[i]) # ValueError)

\* C19: command-tag parse edge cases are never fatal. Whatever the completion
\* replies (a tag of wrong arity, an unknown name or a look_at tag with three fields
\* that are no numbers included), think and handle_game_event append their
\* assistant turn and return a pair, whose text has the tags stripped and whose
\* actions hold nothing for an unknown name and no look_at action but for the
\* look_at tags with three numeric fields.
C19_ParseNeverFatal ==
    [][\A k \in Calls, answer \in Answers :
        (ThinkResume(k, answer) \/ EventResume(k, answer))
        => /\ returned'.task = k
           /\ returned'.ret.kind = "pair"
           /\ turns' = Window(Append(turns, assistant_turn(call_claude(answer))))
           /\ returned'.ret.text = Strip(Removed(call_claude(answer)))
           /\ Len(SelectSeq(returned'.ret.actions, LAMBDA a : a.action = "look_at"))
                = Len(NumericLookAts(call_claude(answer)))
           /\ Len(returned'.ret.actions) <= Len(SelectSeq(Tags(call_claude(answer)), Known))]_vars

\* C20: appends to the window are ordered by call: under every interleaving of the
\* think and handle_game_event calls the orchestrator makes, at most one call is
\* between the append of its user turn and the append of its assistant turn, so the
\* window never holds two user turns in a row.
C20_AppendsOrdered ==
    /\ Cardinality({ k \in Calls : pc[k] \in {"think_await", "event_await"} }) <= 1
    /\ \A i \in 1..(Len(turns) - 1) :
          ~(turns[i].role = "user" /\ turns[i + 1].role = "user")

\* C21: with the orchestrator as wired, at most one think call is in flight (between
\* its call and its return) in every reachable state.
C21_OneThinkInFlight ==
    Cardinality({ k \in Calls : pc[k] = "think_await" }) <= 1

\* C22: the pending queue is never drained. Every step leaves what was queued in
\* place, in order (the queue only grows at its end); a call that returns starts no
\* other call, so no queued event becomes a completion call or a reply; and a
\* handle_game_event that finds the lock held with the queue at capacity is
\* dropped: it returns None and queues nothing.
C22_NeverDrained ==
    [][/\ Len(proactive_queue') >= Len(proactive_queue)
       /\ SubSeq(proactive_queue', 1, Len(proactive_queue)) = proactive_queue
       /\ \A k \in Calls :
            /\ (pc[k] # "idle" /\ pc'[k] = "idle")
               => /\ \A j \in Calls \ {k} : pc'[j] = pc[j]
                  /\ proactive_queue' = proactive_queue
            /\ \A ev \in ProactiveEvents :
                 ( /\ CallHandleGameEvent(k, ev)
                   /\ ~voice_active
                   /\ ~CooldownSuppressed(ev.event_type)
                   /\ proactive_lock
                   /\ Len(proactive_queue) >= MAX_QUEUE_DEPTH )
                 => /\ returned'.task = k
                    /\ returned'.outcome = "dropped"
                    /\ returned'.ret = RetNone
                    /\ UNCHANGED <<proactive_queue, turns, pc, last_event_time>>]_vars

\* the queue filled up while an admitted call held the lock, and the call made after
\* that found the lock held and was dropped
C22_Witness ==
    /\ MAX_QUEUE_DEPTH > 0
    /\ Len(proactive_queue) = MAX_QUEUE_DEPTH
    /\ proactive_lock
    /\ returned.op = "handle_game_event"
    /\ returned.outcome = "dropped"
    /\ returned.ret = RetNone

\* C23: the cooldown table changes only when a handle_game_event call is admitted
\* (voice inactive, out of cooldown, lock free: the call takes the lock), and then
\* the entry of the call's type, and no other, is set to the time of the call's
\* cooldown check; suppressed, queued and dropped calls and think calls leave the
\* table as it is; no entry is removed and no stamp decreases.
C23_TableFrame ==
    [][/\ \A T \in DOMAIN last_event_time :
            T \in DOMAIN last_event_time' /\ last_event_time'[T] >= last_event_time[T]
       /\ last_event_time' # last_event_time
          => \E k \in Calls, ev \in ProactiveEvents :
                /\ CallHandleGameEvent(k, ev)
                /\ ~voice_active
                /\ now - Get(last_event_time, ev.event_type, 0) >= Cooldown(ev.event_type)
                /\ ~proactive_lock /\ proactive_lock'
                /\ DOMAIN last_event_time' = DOMAIN last_event_time \cup {ev.event_type}
                /\ last_event_time'[ev.event_type] = now
                /\ \A T \in DOMAIN last_event_time \ {ev.event_type} :
                      last_event_time'[T] = last_event_time[T]
       /\ \A k \in Calls :
            /\ \A ev \in ProactiveEvents :
                 ( /\ CallHandleGameEvent(k, ev)
                   /\ \/ voice_active
                      \/ now - Get(last_event_time, ev.event_type, 0) < Cooldown(ev.event_type)
                      \/ proactive_lock )
                 => UNCHANGED last_event_time
            /\ ( \/ \E user_input \in ThinkInputs : CallThink(k, user_input)
                 \/ \E answer \in GateAnswers : ThinkResume(k, answer)
                 \/ \E answer \in GateAnswers : EventResume(k, answer) )
               => UNCHANGED last_event_time]_vars

\* both types are stamped, one at the start and one after the clock advanced twice,
\* and a think call returned last
C23_Witness ==
    /\ DOMAIN last_event_time = {EVENT_TYPE.mob_spawn, EVENT_TYPE.night_fall}
    /\ last_event_time[EVENT_TYPE.mob_spawn] = StartTime + 2 * TimeStep
    /\ last_event_time[EVENT_TYPE.night_fall] = StartTime
    /\ returned.op = "think"

\* C24: an exception raised by the handler of a game_event stays in its task. The
\* step in which the handler raises ends the task and leaves the slot, the
\* websockets, the read loops and what was sent as they are; no read loop of an
\* open websocket has ended; and an envelope received after a handler raised is
\* still dispatched (a game_event starts a task, a ping begins a pong).
C24_HandlerExceptionCaught ==
    /\ [](\A c \in 1..Len(conns) : conns[c].open => conns[c].reader # "ended")
    /\ [][/\ \A k \in Calls :
               (tasks[k].outcome # "raised" /\ tasks'[k].outcome = "raised")
               => /\ tasks'[k].st = "done"
                  /\ UNCHANGED <<connection, conns, outbox, sends, send_lock>>
                  /\ \A j \in Calls \ {k} : tasks'[j] = tasks[j]
          /\ \A c \in Conns, payload \in GameEvents \cup Pings :
               (Receive(c, payload) /\ \E j \in Calls : tasks[j].outcome = "raised")
               => /\ IsType(payload, "game_event")
                     => \E k \in Calls : tasks[k].st = "free" /\ tasks'[k].st = "created"
                                         /\ tasks'[k].msg = payload.msg
                  /\ IsType(payload, "ping") => PongBegun(c, payload)
                  /\ conns'[c].open
                  /\ connection' = connection]_vars

\* the handler of the first game_event raised, and a game_event received after that
\* (it arrived with the type stamped and the lock free again) has its own task
C24_Witness ==
    /\ tasks[1].outcome = "raised"
    /\ tasks[1].st = "done"
    /\ tasks[2].st # "free"
    /\ tasks[2].arrival.cooldown
    /\ ~tasks[2].arrival.lock
    /\ connection = 1
    /\ conns[1].open
    /\ conns[1].reader = "reading"

\* the completion call of another task than j is outstanding
Outstanding(j) == \E k \in Calls \ {j} : tasks[k].st = "brain"

\* the task j runs handle_game_event in this step and passes the voice and the
\* cooldown check
PassesChecks(j) ==
    /\ StartProactive(j)
    /\ ~voice_active
    /\ ~CooldownSuppressed(EventType(j))

\* while a completion call is outstanding the read loop dispatches what it receives,
\* and a think call made then is processed and answered with the outstanding call
\* where it was
ReadLoopAndThinkGoOn ==
    /\ \A c \in Conns, payload \in GameEvents \cup Pings :
         (Receive(c, payload) /\ \E k \in Calls : tasks[k].st = "brain")
         => /\ IsType(payload, "game_event")
               => \E j \in Calls : tasks[j].st = "free" /\ tasks'[j].st = "created"
            /\ IsType(payload, "ping") => PongBegun(c, payload)
            /\ conns'[c].reader \in {"reading", "sending"}
    /\ \A j \in Calls :
         /\ ( /\ StartPlayerMessage(j)
              /\ Get(EventData(j), "message", <<>>) # <<>>
              /\ Outstanding(j) )
            => tasks'[j].st = "brain" /\ pc'[j] = "think_await"
         /\ ( /\ Outstanding(j)
              /\ pc[j] = "think_await"
              /\ \E answer \in HandlerAnswers : TaskResume(j, answer) )
            => /\ pc'[j] = "idle"
               /\ \A k \in Calls \ {j} : tasks'[k] = tasks[k] /\ pc'[k] = pc[k]

\* C25 as stated: a completion call that never returns stalls only its own request;
\* while it is outstanding the read loop goes on, think calls are processed and
\* answered, and a handle_game_event call that passes the voice and cooldown checks
\* is processed (it reaches its own completion call).
C25_OnlyOneStalled ==
    [][/\ ReadLoopAndThinkGoOn
       /\ \A j \in Calls :
            (PassesChecks(j) /\ Outstanding(j))
            => tasks'[j].st = "brain" /\ pc'[j] = "event_await"]_vars

\* C25, amended: while a completion call is outstanding the read loop goes on and
\* think calls are processed and answered; a handle_game_event call that passes the
\* voice and cooldown checks is processed when the outstanding calls are think calls
\* (the lock is free), and when the outstanding call is a handle_game_event call
\* (it holds the lock) the later call returns None, queued or dropped, makes no
\* completion call and gets no reply.
C25_HungCallHoldsLock ==
    [][/\ ReadLoopAndThinkGoOn
       /\ \A j \in Calls :
            (PassesChecks(j) /\ Outstanding(j))
            => IF \E k \in Calls \ {j} : pc[k] = "event_await"
               THEN /\ proactive_lock
                    /\ tasks'[j].st = "done"
                    /\ tasks'[j].outcome \in {"queued", "dropped"}
                    /\ pc'[j] = "idle"
                    /\ UNCHANGED <<turns, outbox, sends>>
               ELSE tasks'[j].st = "brain" /\ pc'[j] = "event_await"]_vars

\* the handle_game_event call of the first task is outstanding and the event of the
\* second task, of another type, was queued: its task has ended without a reply
C25_Witness ==
    /\ tasks[1].st = "brain"
    /\ pc[1] = "event_await"
    /\ tasks[2].st = "done"
    /\ tasks[2].outcome = "queued"
    /\ EventType(2) # EventType(1)
    /\ tasks[2].handled = NoRet
    /\ outbox = <<<<>>>>

\* C26: once a second peer has connected, the slot refers to the peer that connected
\* last for as long as that peer stays connected, whatever happens to the peers
\* that connected before it (send_action and send_chat return false at once when
\* the slot is empty).
C26_LastPeerKeepsSlot ==
    (Len(conns) >= 2 /\ conns[Len(conns)].open /\ conns[Len(conns)].reader # "ended")
    => connection = Len(conns)

\* the actions of a reply that are not send_chat, in extraction order
NotChat(actions) == SelectSeq(actions, LAMBDA a : a.action # "send_chat")

\* the names of a sequence of actions or of recorded send_action calls
Names(s) == [i \in 1..Len(s) |-> s[i].action]

\* C27: for every reply whose (text, actions) pair reached the response handler, the
\* send_action calls made for it are the reply's actions other than send_chat, one
\* call each, in extraction order: at any moment the calls made so far are the first
\* of them, and once the loop over the actions is over they are all of them, also
\* when the reply's clean text is empty.
C27_ActionsForwarded ==
    \A k \in Calls :
        tasks[k].handled.kind = "pair"
        => /\ Len(tasks[k].log) <= Len(NotChat(tasks[k].handled.actions))
           /\ \A i \in 1..Len(tasks[k].log) :
                 tasks[k].log[i].action = NotChat(tasks[k].handled.actions)[i].action
           /\ tasks[k].st \in {"joining", "done"}
              => Names(tasks[k].log) = Names(NotChat(tasks[k].handled.actions))

\* C28: while voice-active is true no handle_game_event call returns a (text,
\* actions) pair and none appends a turn, also when the call was admitted before
\* set_voice_active(true) and its completion ends during the voice-active period.
C28_SilentWhileVoiceActive ==
    [][\A k \in Calls :
          (voice_active /\ pc[k] = "event_await" /\ pc'[k] # "event_await")
          => /\ ~(returned'.task = k /\ returned'.ret.kind = "pair")
             /\ turns' = turns]_vars

\* the admitted handle_game_event calls that have not ended
InFlight == {k \in Calls : pc[k] = "event_await"}

\* C29: the in-flight lock is released on every exit path of an admitted
\* handle_game_event call: the step in which the call ends, with a pair, with the
\* fallback of a failed completion or with the exception of the command extraction,
\* leaves the lock free, and the lock is held only while an admitted call has not
\* ended.
C29_LockReleased ==
    [][/\ \A k \in Calls : (pc[k] = "event_await" /\ pc'[k] # "event_await") => ~proactive_lock'
       /\ proactive_lock' => InFlight' # {}]_vars

\* an admitted call has ended with the exception of the command extraction, the lock
\* is free and no call is in flight
C29_Witness ==
    /\ returned.op = "handle_game_event"
    /\ returned.outcome = "admitted"
    /\ returned.ret.kind = "raised"
    /\ InFlight = {}
    /\ ~proactive_lock

====
